---- MODULE Spec2Model ----
\* A model of the outlook-mcp server process: the OutlookClient token manager
\* (src/src/client.py), the dispatcher's singleton accessor and dynamic wrapper
\* (src/src/main.py) and the tool functions (src/src/tools/*.py).
\*
\* The process is single-threaded and synchronous, so one tool invocation
\* (wrapper -> get_client -> tool function -> client.request) is one action.
\* Everything the outside world decides during an invocation (the identity
\* provider's answers, the HTTP status codes, the local file system) is an
\* input of the action, drawn with \E.  The events of the invocation are kept,
\* in order, in last.ev.
EXTENDS Integers, Sequences, FiniteSets, TLC

VARIABLES
    env_client_id,      \* os.getenv("OUTLOOK_CLIENT_ID") is set
    token_cache_file,   \* .token_cache.json on disk
    state_client,       \* "client" in state (main.py), a client object exists
    access_token,       \* client.access_token
    token_cache,        \* client.app.token_cache, the in-memory msal cache
    has_state_changed,  \* client.app.token_cache.has_state_changed
    next_token,         \* the next access token the identity provider mints
    n_constructed,      \* OutlookClient objects constructed by this process
    n_interactive,      \* calls of authenticate_interactive by this process
    ctor_silent,        \* result of _load_cached_token inside __init__
    serving,            \* main() has registered the tools and runs the server
    invoked,            \* history: the server has invoked a tool
    graph,              \* the resources that exist on the Graph API server
    graph_next,         \* the number of the next identifier the server mints
    created,            \* history: the resources create tools have reported
    memo,               \* history: an earlier invocation of a list or get tool
    input_schema,       \* the input schema the manifest gives a tool
    tool_parameters,    \* the parameters schema of the registered tool
    manifest,           \* tools_manifest.json as register_tools finds it
    mcp_tools,          \* the ids of the tools added to the server, in order
    crashed,            \* main() ended with an exception
    last                \* the invocation in progress, until its reply is delivered

vars == <<env_client_id, token_cache_file, state_client, access_token,
          token_cache, has_state_changed, next_token, n_constructed,
          n_interactive, ctor_silent, serving, invoked, graph, graph_next,
          created, memo, input_schema, tool_parameters, manifest, mcp_tools,
          crashed, last>>

----------------------------------------------------------------------------
\* Bounds

\* access tokens the identity provider mints during one process: 1..MaxTok
MaxTok == 2

----------------------------------------------------------------------------
\* Values

\* access_token is None
NoToken == -1
\* an access token issued to an earlier process and left in the cache file
OldToken == 0

GRAPH_API_ENDPOINT == "https://graph.microsoft.com/v1.0"

\* HTTP status codes the Graph API answers with: a 2xx, a 3xx that requests
\* does not follow (304), 401, one other 4xx and one 5xx.
Statuses == {200, 304, 401, 404, 500}

EmptyCache == [Account |-> FALSE, AccessToken |-> NoToken]

NoFile == [exists |-> FALSE, text |-> <<>>]

\* SerializableTokenCache.serialize: the JSON text of the cache, one section
\* per kind of entry the cache holds.
serialize(cache) ==
    (IF cache.Account THEN << <<"Account", 1>> >> ELSE <<>>)
    \o (IF cache.AccessToken # NoToken
        THEN << <<"AccessToken", cache.AccessToken>> >> ELSE <<>>)

\* SerializableTokenCache.deserialize: the cache a JSON text describes.
deserialize(text) ==
    [Account |-> \E i \in 1..Len(text) : text[i][1] = "Account",
     AccessToken |->
        IF \E i \in 1..Len(text) : text[i][1] = "AccessToken"
        THEN (CHOOSE v \in {text[i][2] : i \in
                  {j \in 1..Len(text) : text[j][1] = "AccessToken"}} : TRUE)
        ELSE NoToken]

\* An exception or an envelope's error text: the message, and the HTTP status
\* the message carries (0 when it carries none).
Err(msg, status) == [msg |-> msg, status |-> status]

NoErr == Err("", 0)
NotAuthenticated == Err("Not authenticated. Please authenticate first.", 0)
HeadersNotAuthenticated ==
    Err("Not authenticated. Call authenticate_interactive() first.", 0)
AuthenticationExpired ==
    Err("Authentication expired. Please re-authenticate.", 0)
\* requests.HTTPError, "<status> Client Error: ... for url: ..."
HTTPError(status) == Err("HTTPError", status)
JSONDecodeError == Err("JSONDecodeError", 0)

\* Headers of an HTTP request.  Prefer = "" means the header is absent.
Headers(tok, prefer) ==
    [Authorization |-> tok, ContentType |-> "application/json",
     Prefer |-> prefer]

NoHeaders == Headers(NoToken, "")

\* An event that is not the return of request carries no returned object.
NoRet == [hasId |-> FALSE, isDraft |-> "absent", hasBytes |-> FALSE]

\* One event of an invocation.  A "send" event is one call of
\* requests.request; the other types record the steps of the token manager.
Ev(type, method, url, tok, ok) ==
    [type |-> type, method |-> method, url |-> url, tok |-> tok, ok |-> ok,
     headers |-> NoHeaders, kw |-> "", status |-> 0, err |-> NoErr,
     ret |-> NoRet]

Send(method, url, headers, kw, status) ==
    [type |-> "send", method |-> method, url |-> url,
     tok |-> headers.Authorization, ok |-> status < 400,
     headers |-> headers, kw |-> kw, status |-> status, err |-> NoErr,
     ret |-> NoRet]

\* The end of one call of request: ok tells that it returned (and did not
\* raise), status is the status of the last response, err the exception raised
\* and tok the client's access_token when the call ends; request adds the
\* object it returns (ret).
ReqEnd(method, url, tok, ok, status, err) ==
    [type |-> "req_end", method |-> method, url |-> url, tok |-> tok,
     ok |-> ok, headers |-> NoHeaders, kw |-> "", status |-> status,
     err |-> err, ret |-> NoRet]

\* What is known of the call of authenticate_interactive in an invocation:
\* whether there was one, what the device-flow initiation answered, how the
\* call ended ("True", "False" or "raised"), and the client's token, the
\* in-memory cache and the cache file when it ended, and the token and the
\* cache file when it began (tok0, file0).
NoAuth == [called |-> FALSE, flow |-> "", ret |-> "", tok |-> NoToken,
           cache |-> EmptyCache, file |-> NoFile, tok0 |-> NoToken,
           file0 |-> NoFile]

\* The mutable world an invocation works on: the client object, the cache
\* file, the identity provider's counter and the events so far.
Machine ==
    [tok |-> access_token, cache |-> token_cache, hsc |-> has_state_changed,
     disk |-> token_cache_file, next |-> next_token, ev |-> <<>>,
     has |-> state_client, nctor |-> n_constructed,
     ninter |-> n_interactive, csilent |-> ctor_silent, auth |-> NoAuth]

Log(m, e) == [m EXCEPT !.ev = Append(@, e)]

\* Body(v), with v evaluated once (a LET is evaluated again at each use).
Bind(v, Body(_)) == CHOOSE y \in {Body(x) : x \in {v}} : TRUE

----------------------------------------------------------------------------
\* OutlookClient (src/src/client.py)

\* _create_msal_app: the in-memory cache the msal application starts with.
create_msal_app(disk) ==
    IF disk.exists THEN deserialize(disk.text) ELSE EmptyCache

\* Outcomes of app.acquire_token_silent(SCOPES, account):
\*   "none"      no usable token (returns None or an error dict)
\*   "cached"    the access token held in the cache is returned as it is
\*   "refreshed" a new access token is minted from the refresh artifact and
\*               stored in the cache
SilentOutcomes == {"none", "cached", "refreshed"}

\* _save_token_cache, with the test of has_state_changed inverted.
save_token_cache_when_unchanged(m, write) ==
    IF ~m.hsc
    THEN IF write = "ok"
         THEN [m |-> Log([m EXCEPT !.disk = [exists |-> TRUE,
                                             text |-> serialize(m.cache)]],
                         Ev("save", "", <<>>, m.tok, TRUE)),
               raised |-> FALSE]
         ELSE [m |-> Log(m, Ev("save", "", <<>>, m.tok, FALSE)),
               raised |-> TRUE]
    ELSE [m |-> m, raised |-> FALSE]

\* _save_token_cache.  write is what the file system does with write_text:
\* "ok" or "fail" (OSError).  serialize() resets has_state_changed before
\* write_text is called.
save_token_cache(m, write) ==
    IF m.hsc
    THEN IF write = "ok"
         THEN [m |-> Log([m EXCEPT !.hsc = FALSE,
                                   !.disk = [exists |-> TRUE,
                                             text |-> serialize(m.cache)]],
                         Ev("save", "", <<>>, m.tok, TRUE)),
               raised |-> FALSE]
         ELSE [m |-> Log([m EXCEPT !.hsc = FALSE],
                         Ev("save", "", <<>>, m.tok, FALSE)),
               raised |-> TRUE]
    ELSE [m |-> m, raised |-> FALSE]

\* _load_cached_token.  silent is the outcome of acquire_token_silent, which
\* is called only when the cache holds an account.
load_cached_token(m, silent) ==
    IF ~m.cache.Account
    THEN [m |-> Log(m, Ev("load", "", <<>>, m.tok, FALSE)), ret |-> FALSE]
    ELSE
      Bind(Log(m, Ev("silent", "", <<>>, m.tok, silent # "none")), LAMBDA m0 :
      CASE silent = "cached" /\ m.cache.AccessToken # NoToken ->
             [m |-> Log([m0 EXCEPT !.tok = m.cache.AccessToken],
                        Ev("load", "", <<>>, m.cache.AccessToken, TRUE)),
              ret |-> TRUE]
        [] silent = "refreshed" ->
             [m |-> Log([m0 EXCEPT !.tok = m.next,
                                   !.cache.AccessToken = m.next,
                                   !.hsc = TRUE,
                                   !.next = m.next + 1],
                        Ev("load", "", <<>>, m.next, TRUE)),
              ret |-> TRUE]
        [] OTHER ->
             [m |-> Log(m0, Ev("load", "", <<>>, m0.tok, FALSE)),
              ret |-> FALSE])

\* Outcomes of app.initiate_device_flow: a flow with a user code, a flow
\* without one (error dict), or an exception of the HTTP transport.
FlowOutcomes == {"ok", "nocode", "raise"}
\* Outcomes of app.acquire_token_by_device_flow: a token, or an error dict
\* (timeout, declined, provider error).
PollOutcomes == {"token", "fail"}
WriteOutcomes == {"ok", "fail"}

\* device_code_flow, going on to poll when the flow holds no user code.
device_code_flow_polls_without_code(m, flow, poll, write) ==
    Bind(Log([m EXCEPT !.ninter = @ + 1],
             Ev("initiate", "", <<>>, m.tok, flow = "ok")), LAMBDA m0 :
    CASE flow = "raise"  -> [m |-> m0, ret |-> FALSE, raised |-> TRUE]
      [] OTHER ->
         Bind(Log(m0, Ev("poll", "", <<>>, m0.tok, poll = "token")), LAMBDA m1 :
         IF poll = "token"
         THEN Bind(save_token_cache(
                       [m1 EXCEPT !.tok = m1.next,
                                  !.cache = [Account |-> TRUE,
                                             AccessToken |-> m1.next],
                                  !.hsc = TRUE,
                                  !.next = m1.next + 1], write), LAMBDA sv :
              [m |-> sv.m, ret |-> ~sv.raised, raised |-> sv.raised])
         ELSE [m |-> m1, ret |-> FALSE, raised |-> FALSE]))

\* device_code_flow, writing the cache file after a failed poll as well.
device_code_flow_saves_after_failed_poll(m, flow, poll, write) ==
    Bind(Log([m EXCEPT !.ninter = @ + 1],
             Ev("initiate", "", <<>>, m.tok, flow = "ok")), LAMBDA m0 :
    CASE flow = "raise"  -> [m |-> m0, ret |-> FALSE, raised |-> TRUE]
      [] flow = "nocode" -> [m |-> m0, ret |-> FALSE, raised |-> FALSE]
      [] OTHER ->
         Bind(Log(m0, Ev("poll", "", <<>>, m0.tok, poll = "token")), LAMBDA m1 :
         IF poll = "token"
         THEN Bind(save_token_cache(
                       [m1 EXCEPT !.tok = m1.next,
                                  !.cache = [Account |-> TRUE,
                                             AccessToken |-> m1.next],
                                  !.hsc = TRUE,
                                  !.next = m1.next + 1], write), LAMBDA sv :
              [m |-> sv.m, ret |-> ~sv.raised, raised |-> sv.raised])
         ELSE Bind(save_token_cache([m1 EXCEPT !.hsc = TRUE], write),
                   LAMBDA sv :
              [m |-> sv.m, ret |-> FALSE, raised |-> sv.raised])))

\* authenticate_interactive, up to its return statement.  ret is the value
\* returned; raised tells that an exception left the method instead.
device_code_flow(m, flow, poll, write) ==
    Bind(Log([m EXCEPT !.ninter = @ + 1],
             Ev("initiate", "", <<>>, m.tok, flow = "ok")), LAMBDA m0 :
    CASE flow = "raise"  -> [m |-> m0, ret |-> FALSE, raised |-> TRUE]
      [] flow = "nocode" -> [m |-> m0, ret |-> FALSE, raised |-> FALSE]
      [] OTHER ->
         Bind(Log(m0, Ev("poll", "", <<>>, m0.tok, poll = "token")), LAMBDA m1 :
         IF poll = "token"
         THEN Bind(save_token_cache(
                       [m1 EXCEPT !.tok = m1.next,
                                  !.cache = [Account |-> TRUE,
                                             AccessToken |-> m1.next],
                                  !.hsc = TRUE,
                                  !.next = m1.next + 1], write), LAMBDA sv :
              [m |-> sv.m, ret |-> ~sv.raised, raised |-> sv.raised])
         ELSE [m |-> m1, ret |-> FALSE, raised |-> FALSE]))

\* authenticate_interactive: the device-code flow, and a record of how the
\* call ended.
authenticate_interactive(m, flow, poll, write) ==
    Bind(device_code_flow(m, flow, poll, write), LAMBDA r :
    [r EXCEPT !.m.auth =
        [called |-> TRUE, flow |-> flow,
         ret |-> IF r.raised THEN "raised"
                 ELSE IF r.ret THEN "True" ELSE "False",
         tok |-> r.m.tok, cache |-> r.m.cache, file |-> r.m.disk,
         tok0 |-> m.tok, file0 |-> m.disk]])

\* is_authenticated, taking any client object for an authenticated one.
is_authenticated_any_client(m) == TRUE

\* is_authenticated
is_authenticated(m) == m.tok # NoToken

\* A JSON object of a response, as far as the tools look into it.
JsonObj(hasId, isDraft, hasBytes) ==
    [hasId |-> hasId, isDraft |-> isDraft, hasBytes |-> hasBytes]

\* {}
EmptyObj == JsonObj(FALSE, "absent", FALSE)

\* An HTTP response: its status and its content ("none": no content,
\* "invalid": content that is not JSON, "json": the object json).
Resp(status, content, json) ==
    [status |-> status, content |-> content, json |-> json]

\* get_headers, when access_token is set.
get_headers(m) == Headers(m.tok, "")

\* raise_for_status_and_return, raising for server errors (5xx) only.
raise_for_5xx_only(m, resp) ==
    IF resp.status >= 500 /\ resp.status < 600
    THEN [m |-> m, raised |-> TRUE, err |-> HTTPError(resp.status),
          ret |-> EmptyObj, status |-> resp.status]
    ELSE CASE resp.content = "invalid" ->
                [m |-> m, raised |-> TRUE, err |-> JSONDecodeError,
                 ret |-> EmptyObj, status |-> resp.status]
           [] resp.content = "json" ->
                [m |-> m, raised |-> FALSE, err |-> NoErr, ret |-> resp.json,
                 status |-> resp.status]
           [] OTHER ->
                [m |-> m, raised |-> FALSE, err |-> NoErr, ret |-> EmptyObj,
                 status |-> resp.status]

\* response.raise_for_status() and the return statement of request.
raise_for_status_and_return(m, resp) ==
    IF resp.status >= 400 /\ resp.status < 600
    THEN [m |-> m, raised |-> TRUE, err |-> HTTPError(resp.status),
          ret |-> EmptyObj, status |-> resp.status]
    ELSE CASE resp.content = "none" ->
                [m |-> m, raised |-> FALSE, err |-> NoErr, ret |-> EmptyObj,
                 status |-> resp.status]
           [] resp.content = "invalid" ->
                [m |-> m, raised |-> TRUE, err |-> JSONDecodeError,
                 ret |-> EmptyObj, status |-> resp.status]
           [] OTHER ->
                [m |-> m, raised |-> FALSE, err |-> NoErr, ret |-> resp.json,
                 status |-> resp.status]

\* send_and_retry, sending the retry with the headers of the first attempt.
send_and_retry_with_first_headers(m, method, endpoint, prefer, kw, o) ==
    Bind(Log(m, Send(method, <<GRAPH_API_ENDPOINT, endpoint>>,
                     [get_headers(m) EXCEPT !.Prefer = prefer], kw,
                     o.r1.status)), LAMBDA m1 :
    IF o.r1.status = 401
    THEN Bind(load_cached_token(m1, o.silent), LAMBDA lc :
         IF lc.ret
         THEN raise_for_status_and_return(
                  Log(lc.m, Send(method, <<GRAPH_API_ENDPOINT, endpoint>>,
                                 [get_headers(m) EXCEPT !.Prefer = prefer],
                                 kw, o.r2.status)),
                  o.r2)
         ELSE [m |-> lc.m, raised |-> TRUE, err |-> AuthenticationExpired,
               ret |-> EmptyObj, status |-> 401])
    ELSE raise_for_status_and_return(m1, o.r1))

\* send_and_retry, sending again after a 401 whether or not the silent
\* acquisition succeeded.
send_and_retry_without_token_check(m, method, endpoint, prefer, kw, o) ==
    Bind(Log(m, Send(method, <<GRAPH_API_ENDPOINT, endpoint>>,
                     [get_headers(m) EXCEPT !.Prefer = prefer], kw,
                     o.r1.status)), LAMBDA m1 :
    IF o.r1.status = 401
    THEN Bind(load_cached_token(m1, o.silent), LAMBDA lc :
         raise_for_status_and_return(
             Log(lc.m, Send(method, <<GRAPH_API_ENDPOINT, endpoint>>,
                            get_headers(lc.m), kw, o.r2.status)),
             o.r2))
    ELSE raise_for_status_and_return(m1, o.r1))

\* The body of OutlookClient.request(method, endpoint, headers=prefer, **kw)
\* once get_headers has succeeded.  o.r1 is the response to the first send,
\* o.silent the outcome of the silent acquisition, o.r2 the response to the
\* second send.
send_and_retry(m, method, endpoint, prefer, kw, o) ==
    Bind(Log(m, Send(method, <<GRAPH_API_ENDPOINT, endpoint>>,
                     [get_headers(m) EXCEPT !.Prefer = prefer], kw,
                     o.r1.status)), LAMBDA m1 :
    IF o.r1.status = 401
    THEN Bind(load_cached_token(m1, o.silent), LAMBDA lc :
         IF lc.ret
         THEN raise_for_status_and_return(
                  Log(lc.m, Send(method, <<GRAPH_API_ENDPOINT, endpoint>>,
                                 get_headers(lc.m), kw, o.r2.status)),
                  o.r2)
         ELSE [m |-> lc.m, raised |-> TRUE, err |-> AuthenticationExpired,
               ret |-> EmptyObj, status |-> 401])
    ELSE raise_for_status_and_return(m1, o.r1))

\* request, sending the access token as a query parameter as well.
request_with_token_in_query(m, method, endpoint, prefer, kw, o) ==
    IF m.tok = NoToken
    THEN [m |-> m, raised |-> TRUE, err |-> HeadersNotAuthenticated,
          ret |-> EmptyObj, status |-> 0]
    ELSE
      Bind(send_and_retry(
               Log(m, Ev("request", method, <<GRAPH_API_ENDPOINT, endpoint>>,
                         m.tok, TRUE)),
               method, endpoint, prefer,
               [kw EXCEPT !.params =
                  @ \cup {[path |-> <<"access_token">>, val |-> <<m.tok>>]}],
               o), LAMBDA r :
      [r EXCEPT !.m = Log(r.m, ReqEnd(method, <<GRAPH_API_ENDPOINT, endpoint>>,
                                      r.m.tok, ~r.raised, r.status, r.err))])

\* OutlookClient.request.  The events "request" and "req_end" mark where the
\* call begins and ends.
request(m, method, endpoint, prefer, kw, o) ==
    IF m.tok = NoToken
    THEN [m |-> m, raised |-> TRUE, err |-> HeadersNotAuthenticated,
          ret |-> EmptyObj, status |-> 0]
    ELSE
      Bind(send_and_retry(
               Log(m, Ev("request", method, <<GRAPH_API_ENDPOINT, endpoint>>,
                         m.tok, TRUE)),
               method, endpoint, prefer, kw, o), LAMBDA r :
      [r EXCEPT !.m = Log(r.m, [ReqEnd(method,
                                       <<GRAPH_API_ENDPOINT, endpoint>>,
                                       r.m.tok, ~r.raised, r.status, r.err)
                                  EXCEPT !.ret = r.ret])])

----------------------------------------------------------------------------
\* The dispatcher (src/src/main.py)

\* get_client, starting the interactive flow without looking at what the
\* constructor found in the cache.
get_client_always_interactive(m, g) ==
    IF m.has
    THEN [m |-> m, raised |-> FALSE, err |-> NoErr]
    ELSE IF ~env_client_id
    THEN [m |-> Log(m, Ev("construct", "", <<>>, NoToken, FALSE)),
          raised |-> TRUE,
          err |-> Err("OUTLOOK_CLIENT_ID environment variable is required", 0)]
    ELSE
      Bind(load_cached_token(
               Log([m EXCEPT !.cache = create_msal_app(m.disk),
                             !.hsc = FALSE, !.tok = NoToken],
                   Ev("construct", "", <<>>, NoToken, TRUE)),
               g.silent), LAMBDA lc :
      Bind([lc.m EXCEPT !.has = TRUE, !.nctor = @ + 1,
                        !.csilent = IF lc.ret THEN "ok" ELSE "failed"],
           LAMBDA m1 :
      Bind(authenticate_interactive(m1, g.flow, g.poll, g.write), LAMBDA a :
           [m |-> a.m, raised |-> a.raised,
            err |-> IF a.raised THEN Err("authenticate_interactive raised", 0)
                    ELSE NoErr])))

\* get_client, putting the client into state only once it is authenticated.
get_client_caches_after_auth(m, g) ==
    IF m.has
    THEN [m |-> m, raised |-> FALSE, err |-> NoErr]
    ELSE IF ~env_client_id
    THEN [m |-> Log(m, Ev("construct", "", <<>>, NoToken, FALSE)),
          raised |-> TRUE,
          err |-> Err("OUTLOOK_CLIENT_ID environment variable is required", 0)]
    ELSE
      Bind(load_cached_token(
               Log([m EXCEPT !.cache = create_msal_app(m.disk),
                             !.hsc = FALSE, !.tok = NoToken],
                   Ev("construct", "", <<>>, NoToken, TRUE)),
               g.silent), LAMBDA lc :
      Bind([lc.m EXCEPT !.nctor = @ + 1,
                        !.csilent = IF lc.ret THEN "ok" ELSE "failed"],
           LAMBDA m1 :
      IF is_authenticated(m1)
      THEN [m |-> [m1 EXCEPT !.has = TRUE], raised |-> FALSE, err |-> NoErr]
      ELSE Bind(authenticate_interactive(m1, g.flow, g.poll, g.write),
                LAMBDA a :
           [m |-> [a.m EXCEPT !.has = ~a.raised /\ a.ret],
            raised |-> a.raised,
            err |-> IF a.raised THEN Err("authenticate_interactive raised", 0)
                    ELSE NoErr])))

\* get_client, the constructor reading the cache file before it looks at the
\* application identifier, and the client kept in state when it raises.
get_client_reads_cache_first(m, g) ==
    IF m.has
    THEN [m |-> m, raised |-> FALSE, err |-> NoErr]
    ELSE IF ~env_client_id
    THEN [m |-> Log([m EXCEPT !.cache = create_msal_app(m.disk),
                              !.has = TRUE],
                    Ev("construct", "", <<>>, NoToken, FALSE)),
          raised |-> TRUE,
          err |-> Err("OUTLOOK_CLIENT_ID environment variable is required", 0)]
    ELSE
      Bind(load_cached_token(
               Log([m EXCEPT !.cache = create_msal_app(m.disk),
                             !.hsc = FALSE, !.tok = NoToken],
                   Ev("construct", "", <<>>, NoToken, TRUE)),
               g.silent), LAMBDA lc :
      Bind([lc.m EXCEPT !.has = TRUE, !.nctor = @ + 1,
                        !.csilent = IF lc.ret THEN "ok" ELSE "failed"],
           LAMBDA m1 :
      IF is_authenticated(m1)
      THEN [m |-> m1, raised |-> FALSE, err |-> NoErr]
      ELSE Bind(authenticate_interactive(m1, g.flow, g.poll, g.write),
                LAMBDA a :
           [m |-> a.m, raised |-> a.raised,
            err |-> IF a.raised THEN Err("authenticate_interactive raised", 0)
                    ELSE NoErr])))

\* get_client of main.py.  g holds what the identity provider and the file
\* system do while the client is constructed and authenticated.
get_client(m, g) ==
    IF m.has
    THEN [m |-> m, raised |-> FALSE, err |-> NoErr]
    ELSE IF ~env_client_id
    THEN [m |-> Log(m, Ev("construct", "", <<>>, NoToken, FALSE)),
          raised |-> TRUE,
          err |-> Err("OUTLOOK_CLIENT_ID environment variable is required", 0)]
    ELSE
      Bind(load_cached_token(
               Log([m EXCEPT !.cache = create_msal_app(m.disk),
                             !.hsc = FALSE, !.tok = NoToken],
                   Ev("construct", "", <<>>, NoToken, TRUE)),
               g.silent), LAMBDA lc :
      Bind([lc.m EXCEPT !.has = TRUE, !.nctor = @ + 1,
                        !.csilent = IF lc.ret THEN "ok" ELSE "failed"],
           LAMBDA m1 :
      IF is_authenticated(m1)
      THEN [m |-> m1, raised |-> FALSE, err |-> NoErr]
      ELSE Bind(authenticate_interactive(m1, g.flow, g.poll, g.write),
                LAMBDA a :
           [m |-> a.m, raised |-> a.raised,
            err |-> IF a.raised THEN Err("authenticate_interactive raised", 0)
                    ELSE NoErr])))

----------------------------------------------------------------------------
\* The tool functions (src/src/tools/*.py)

\* The "data" of an envelope: {} ("empty"), the JSON the request returned
\* ("result"), a fixed message ("message"), {"deleted": True} ("deleted") or
\* the description of a downloaded file ("file").
Data(kind, json) == [kind |-> kind, json |-> json]

\* {"successful": False, "data": {}, "error": err}
Fail(err) == [successful |-> FALSE, data |-> Data("empty", EmptyObj),
              error |-> err]

\* Ok, with an "error" key in the success envelope as well.
Ok_with_error_key(data) ==
    [successful |-> TRUE, data |-> data, error |-> NoErr]

\* {"successful": True, "data": data}
Ok(data) == [successful |-> TRUE, data |-> data]

\* The tools that check authentication, build one request from their
\* parameters, send it and wrap the result: the HTTP method, the endpoint (for
\* the default user "me") and the data of the success envelope.
ToolTable == {
    [name |-> "create_calendar", method |-> "POST",
     endpoint |-> "/me/calendars", data |-> "result"],
    [name |-> "create_event", method |-> "POST",
     endpoint |-> "/me/events", data |-> "result"],
    [name |-> "delete_event", method |-> "DELETE",
     endpoint |-> "/me/events/{event_id}", data |-> "message"],
    [name |-> "get_event", method |-> "GET",
     endpoint |-> "/me/events/{event_id}", data |-> "result"],
    [name |-> "update_calendar_event", method |-> "PATCH",
     endpoint |-> "/me/events/{event_id}", data |-> "result"],
    [name |-> "get_schedule", method |-> "POST",
     endpoint |-> "/me/calendar/getSchedule", data |-> "result"],
    [name |-> "get_master_categories", method |-> "GET",
     endpoint |-> "/me/outlook/masterCategories", data |-> "result"],
    [name |-> "create_master_category", method |-> "POST",
     endpoint |-> "/me/outlook/masterCategories", data |-> "result"],
    [name |-> "create_contact", method |-> "POST",
     endpoint |-> "/me/contacts", data |-> "result"],
    [name |-> "get_contact", method |-> "GET",
     endpoint |-> "/me/contacts/{contact_id}", data |-> "result"],
    [name |-> "get_contact_folders", method |-> "GET",
     endpoint |-> "/me/contactFolders", data |-> "result"],
    [name |-> "delete_contact", method |-> "DELETE",
     endpoint |-> "/me/contacts/{contact_id}", data |-> "message"],
    [name |-> "update_contact", method |-> "PATCH",
     endpoint |-> "/me/contacts/{contact_id}", data |-> "result"],
    [name |-> "create_contact_folder", method |-> "POST",
     endpoint |-> "/me/contactFolders", data |-> "result"],
    [name |-> "create_mail_folder", method |-> "POST",
     endpoint |-> "/me/mailFolders", data |-> "result"],
    [name |-> "delete_mail_folder", method |-> "DELETE",
     endpoint |-> "/me/mailFolders/{folder_id}", data |-> "result_or_deleted"],
    [name |-> "list_calendars", method |-> "GET",
     endpoint |-> "/me/calendars", data |-> "result"],
    [name |-> "list_event_attachments", method |-> "GET",
     endpoint |-> "/me/events/{event_id}/attachments", data |-> "result"],
    [name |-> "list_outlook_attachments", method |-> "GET",
     endpoint |-> "/me/messages/{message_id}/attachments", data |-> "result"],
    [name |-> "list_reminders", method |-> "GET",
     endpoint |-> "/me/reminderView(startDateTime={startDateTime},endDateTime={endDateTime})", data |-> "result"],
    [name |-> "list_contacts", method |-> "GET",
     endpoint |-> "/me/contacts", data |-> "result"],
    [name |-> "list_events", method |-> "GET",
     endpoint |-> "/me/events", data |-> "result"],
    [name |-> "list_mail_folders", method |-> "GET",
     endpoint |-> "/me/mailFolders", data |-> "result"],
    [name |-> "list_messages", method |-> "GET",
     endpoint |-> "/me/messages", data |-> "result"],
    [name |-> "add_mail_attachment", method |-> "POST",
     endpoint |-> "/me/messages/{message_id}/attachments", data |-> "result"],
    [name |-> "create_draft_reply", method |-> "POST",
     endpoint |-> "/me/messages/{message_id}/createReply", data |-> "result"],
    [name |-> "get_message", method |-> "GET",
     endpoint |-> "/me/messages/{message_id}", data |-> "result"],
    [name |-> "move_message", method |-> "POST",
     endpoint |-> "/me/messages/{message_id}/move", data |-> "result"],
    [name |-> "reply_email", method |-> "POST",
     endpoint |-> "/me/messages/{message_id}/reply", data |-> "message"],
    [name |-> "search_messages", method |-> "GET",
     endpoint |-> "/me/messages", data |-> "result"],
    [name |-> "send_email", method |-> "POST",
     endpoint |-> "/me/sendMail", data |-> "message"],
    [name |-> "get_profile", method |-> "GET",
     endpoint |-> "/me", data |-> "result"],
    [name |-> "create_email_rule", method |-> "POST",
     endpoint |-> "/me/mailFolders/inbox/messageRules", data |-> "result"],
    [name |-> "get_mailbox_settings", method |-> "GET",
     endpoint |-> "/me/mailboxSettings", data |-> "result"],
    [name |-> "get_mail_delta", method |-> "GET",
     endpoint |-> "/me/mailFolders/{folder}/messages/delta", data |-> "result"],
    [name |-> "get_mail_tips", method |-> "POST",
     endpoint |-> "/me/getMailTips", data |-> "result"],
    [name |-> "get_supported_languages", method |-> "GET",
     endpoint |-> "/me/outlook/supportedLanguages", data |-> "result"],
    [name |-> "get_supported_time_zones", method |-> "GET",
     endpoint |-> "/me/outlook/supportedTimeZones", data |-> "result"],
    [name |-> "update_mailbox_settings", method |-> "PATCH",
     endpoint |-> "/me/mailboxSettings", data |-> "result"]
}

SimpleTools == {t.name : t \in ToolTable}

Tools == SimpleTools \cup {"create_draft", "update_email",
                           "add_event_attachment",
                           "download_outlook_attachment"}

\* The value of the headers= argument: delete_event (send_notifications is
\* False) and list_events (timezone given) pass a Prefer header.
PreferOf(name) ==
    CASE name = "delete_event" -> {"", "outlook.notification-handling=suppress"}
      [] name = "list_events"  -> {"", "outlook.timezone"}
      [] OTHER                 -> {""}

success_data(t, result) ==
    CASE t.data = "message" -> Data("message", EmptyObj)
      [] t.data = "result_or_deleted" ->
           IF result = EmptyObj THEN Data("deleted", EmptyObj)
           ELSE Data("result", result)
      [] OTHER -> Data("result", result)

\* simple_tool, reporting success whatever request did.
simple_tool_ignores_failure(m, t, prefer, o) ==
    IF ~is_authenticated(m)
    THEN [m |-> m, env |-> Fail(NotAuthenticated)]
    ELSE Bind(request(m, t.method, t.endpoint, prefer, t.name, o), LAMBDA r :
         [m |-> r.m, env |-> Ok(success_data(t, r.ret))])

\* A tool of ToolTable, called with the client m.
simple_tool(m, t, prefer, o) ==
    IF ~is_authenticated(m)
    THEN [m |-> m, env |-> Fail(NotAuthenticated)]
    ELSE Bind(request(m, t.method, t.endpoint, prefer, t.name, o), LAMBDA r :
         IF r.raised
         THEN [m |-> r.m, env |-> Fail(r.err)]
         ELSE [m |-> r.m, env |-> Ok(success_data(t, r.ret))])

\* add_event_attachment, asking for the event before it posts the attachment.
add_event_attachment_with_lookup(m, file_path, text_content, contentBytes, fs, o) ==
    IF ~is_authenticated(m)
    THEN [m |-> m, env |-> Fail(NotAuthenticated)]
    ELSE Bind(request(m, "GET", "/me/events/{event_id}", "", "", o),
              LAMBDA look :
         Bind(request(look.m, "POST", "/me/events/{event_id}/attachments", "",
                      "contentBytes", o), LAMBDA r :
         IF r.raised
         THEN [m |-> r.m, env |-> Fail(r.err)]
         ELSE [m |-> r.m, env |-> Ok(Data("result", r.ret))]))

\* create_draft.  attachment: the attachment parameter is given.
create_draft(m, attachment, o1, o2) ==
    IF ~is_authenticated(m)
    THEN [m |-> m, env |-> Fail(NotAuthenticated)]
    ELSE Bind(request(m, "POST", "/me/messages", "", "draft_data", o1),
              LAMBDA r1 :
         IF r1.raised
         THEN [m |-> r1.m, env |-> Fail(r1.err)]
         ELSE IF attachment /\ r1.ret.hasId
         THEN Bind(request(r1.m, "POST",
                           "/me/messages/{message_id}/attachments", "",
                           "attachment_data", o2), LAMBDA r2 :
              IF r2.raised
              THEN [m |-> r2.m, env |-> Fail(r2.err)]
              ELSE [m |-> r2.m, env |-> Ok(Data("result", r1.ret))])
         ELSE [m |-> r1.m, env |-> Ok(Data("result", r1.ret))])

OnlyDraftsCanBeUpdated ==
    Err("Cannot update received message. Only draft messages can be updated.", 0)
BodyMustBeDict ==
    Err("Body must be a dict with 'contentType' and 'content' fields", 0)
AtLeastOneField ==
    Err("At least one field must be provided to update.", 0)

\* The values of update_email's body parameter: not given, a dict with
\* contentType and content, a dict without them, not a dict.
BodyArgs == {"none", "valid", "incomplete", "nondict"}

\* update_email, refusing only a message that reports isDraft false.
update_email_blocks_only_false(m, body, other, o1, o2) ==
    IF ~is_authenticated(m)
    THEN [m |-> m, env |-> Fail(NotAuthenticated)]
    ELSE
      Bind(request(m, "GET", "/me/messages/{message_id}?$select=isDraft",
                   "", "", o1), LAMBDA chk :
      IF ~chk.raised /\ chk.ret.isDraft = "false"
      THEN [m |-> chk.m, env |-> Fail(OnlyDraftsCanBeUpdated)]
      ELSE IF body \in {"incomplete", "nondict"}
      THEN [m |-> chk.m, env |-> Fail(BodyMustBeDict)]
      ELSE IF body = "none" /\ ~other
      THEN [m |-> chk.m, env |-> Fail(AtLeastOneField)]
      ELSE Bind(request(chk.m, "PATCH", "/me/messages/{message_id}", "",
                        "message_data", o2), LAMBDA r :
           IF r.raised
           THEN [m |-> r.m, env |-> Fail(r.err)]
           ELSE [m |-> r.m, env |-> Ok(Data("result", r.ret))]))

\* update_email.  body: the body parameter; other: one of subject,
\* to_recipients, cc_recipients, bcc_recipients, importance is given.
update_email(m, body, other, o1, o2) ==
    IF ~is_authenticated(m)
    THEN [m |-> m, env |-> Fail(NotAuthenticated)]
    ELSE
      Bind(request(m, "GET", "/me/messages/{message_id}?$select=isDraft",
                   "", "", o1), LAMBDA chk :
      IF ~chk.raised /\ chk.ret.isDraft # "true"
      THEN [m |-> chk.m, env |-> Fail(OnlyDraftsCanBeUpdated)]
      ELSE IF body \in {"incomplete", "nondict"}
      THEN [m |-> chk.m, env |-> Fail(BodyMustBeDict)]
      ELSE IF body = "none" /\ ~other
      THEN [m |-> chk.m, env |-> Fail(AtLeastOneField)]
      ELSE Bind(request(chk.m, "PATCH", "/me/messages/{message_id}", "",
                        "message_data", o2), LAMBDA r :
           IF r.raised
           THEN [m |-> r.m, env |-> Fail(r.err)]
           ELSE [m |-> r.m, env |-> Ok(Data("result", r.ret))]))

FileNotFound == Err("File not found", 0)
ErrorReadingFile == Err("Error reading file", 0)

\* What the file system does with file_path: os.path.exists is False, open or
\* read raises, or the bytes are read.
FsOutcomes == {"missing", "unreadable", "ok"}

\* add_event_attachment, the supplied contentBytes going before text_content.
add_event_attachment_prefers_contentBytes(m, file_path, text_content, contentBytes, fs, o) ==
    IF ~is_authenticated(m)
    THEN [m |-> m, env |-> Fail(NotAuthenticated)]
    ELSE IF file_path /\ fs = "missing"
    THEN [m |-> m, env |-> Fail(FileNotFound)]
    ELSE IF file_path /\ fs = "unreadable"
    THEN [m |-> m, env |-> Fail(ErrorReadingFile)]
    ELSE
      Bind(request(m, "POST", "/me/events/{event_id}/attachments", "",
                   CASE file_path    -> "b64(file)"
                     [] contentBytes -> "contentBytes"
                     [] text_content -> "b64(text_content)"
                     [] OTHER        -> "", o), LAMBDA r :
      IF r.raised
      THEN [m |-> r.m, env |-> Fail(r.err)]
      ELSE [m |-> r.m, env |-> Ok(Data("result", r.ret))])

\* add_event_attachment.  file_path, text_content, contentBytes: the parameter
\* is given.  The payload sent holds the contentBytes chosen.
add_event_attachment(m, file_path, text_content, contentBytes, fs, o) ==
    IF ~is_authenticated(m)
    THEN [m |-> m, env |-> Fail(NotAuthenticated)]
    ELSE IF file_path /\ fs = "missing"
    THEN [m |-> m, env |-> Fail(FileNotFound)]
    ELSE IF file_path /\ fs = "unreadable"
    THEN [m |-> m, env |-> Fail(ErrorReadingFile)]
    ELSE
      LET final_content_bytes ==
              CASE file_path    -> "b64(file)"
                [] text_content -> "b64(text_content)"
                [] contentBytes -> "contentBytes"
                [] OTHER        -> ""
      IN  Bind(request(m, "POST", "/me/events/{event_id}/attachments", "",
                       final_content_bytes, o), LAMBDA r :
          IF r.raised
          THEN [m |-> r.m, env |-> Fail(r.err)]
          ELSE [m |-> r.m, env |-> Ok(Data("result", r.ret))])

NoDownloadableContent ==
    Err("Attachment does not contain downloadable content (contentBytes).", 0)
LocalWriteError == Err("OSError", 0)

\* download_outlook_attachment.  write: what open(file_name, "wb") and
\* f.write do, "ok" or "fail".
download_outlook_attachment(m, write, o) ==
    IF ~is_authenticated(m)
    THEN [m |-> m, env |-> Fail(NotAuthenticated)]
    ELSE Bind(request(m, "GET",
                  "/me/messages/{message_id}/attachments/{attachment_id}",
                  "", "", o), LAMBDA r :
         IF r.raised
         THEN [m |-> r.m, env |-> Fail(r.err)]
         ELSE IF ~r.ret.hasBytes
         THEN [m |-> r.m, env |-> Fail(NoDownloadableContent)]
         ELSE IF write = "fail"
         THEN [m |-> Log(r.m, Ev("write_file", "", <<>>, r.m.tok, FALSE)),
               env |-> Fail(LocalWriteError)]
         ELSE [m |-> Log(r.m, Ev("write_file", "", <<>>, r.m.tok, TRUE)),
               env |-> Ok(Data("file", r.ret))])

----------------------------------------------------------------------------
\* Python values and JSON documents, for the tools modelled with their
\* parameters

\* None, and a value that is not None.
None == <<>>
Some(v) == <<v>>

\* bool(x) for an Optional[str], Optional[bool], Optional[List] parameter.
truthy_str(x) == x # None /\ x[1] # ""
truthy_bool(x) == x # None /\ x[1]
truthy_list(x) == x # None /\ Len(x[1]) > 0

\* str(b).lower() for a bool b
lower_str(b) == IF b THEN "true" ELSE "false"

\* sep.join(parts)
RECURSIVE join(_, _)
join(sep, parts) ==
    IF Len(parts) = 0 THEN ""
    ELSE IF Len(parts) = 1 THEN parts[1]
    ELSE parts[1] \o sep \o join(sep, Tail(parts))

\* A JSON document (a request body or the query parameters) is the set of
\* its leaves: the path of keys (list indices as "0", "1", ...) and the
\* Python value found there, None for null.
Leaf(path, val) == [path |-> path, val |-> val]

\* {key: val} if cond else {}
LeafIf(cond, path, val) == IF cond THEN {Leaf(path, val)} ELSE {}

\* d.get(key) and d.get(key, default) for a dict d of strings, kept as a
\* function from its keys.
dict_get(d, key, default) == IF key \in DOMAIN d THEN Some(d[key]) ELSE default

\* user = user_id if user_id else "me"
user_of(kw) == IF truthy_str(kw.user_id) THEN kw.user_id[1] ELSE "me"

\* The signature of a tool function: its parameters in order, each without a
\* default (Req) or with one (Opt).  Every default in src/src/tools is None.
Req(name) == [name |-> name, has_default |-> FALSE, default |-> None]
Opt(name, default) == [name |-> name, has_default |-> TRUE, default |-> default]

\* inspect.signature(func) of the tool functions modelled with their
\* parameters.
signature(tool) ==
    CASE tool = "send_email" ->
           <<Req("client"), Req("subject"), Req("body"), Req("to_email"),
             Opt("to_name", None), Opt("cc_emails", None),
             Opt("bcc_emails", None), Opt("is_html", None),
             Opt("attachment", None), Opt("save_to_sent_items",
             None), Opt("user_id", None)>>
      [] tool = "create_contact" ->
           <<Req("client"), Opt("givenName", None), Opt("surname", None),
             Opt("displayName", None), Opt("emailAddresses",
             None), Opt("businessPhones", None),
             Opt("mobilePhone", None), Opt("homePhone", None),
             Opt("companyName", None), Opt("department", None),
             Opt("jobTitle", None), Opt("officeLocation", None),
             Opt("birthday", None), Opt("categories", None),
             Opt("notes", None), Opt("user_id", None)>>
      [] tool = "update_calendar_event" ->
           <<Req("client"), Req("event_id"), Opt("subject", None),
             Opt("body", None), Opt("start_datetime", None),
             Opt("end_datetime", None), Opt("time_zone", None),
             Opt("location", None), Opt("attendees", None),
             Opt("categories", None), Opt("show_as", None),
             Opt("user_id", None)>>
      [] tool = "list_messages" ->
           <<Req("client"), Opt("folder", None), Opt("categories", None),
             Opt("conversationId", None), Opt("from_address",
             None), Opt("has_attachments", None),
             Opt("importance", None), Opt("is_read", None),
             Opt("orderby", None), Opt("received_date_time_ge",
             None), Opt("received_date_time_gt", None),
             Opt("received_date_time_le", None),
             Opt("received_date_time_lt", None), Opt("select",
             None), Opt("sent_date_time_gt", None),
             Opt("sent_date_time_lt", None), Opt("skip", None),
             Opt("subject", None), Opt("subject_contains", None),
             Opt("subject_endswith", None),
             Opt("subject_startswith", None), Opt("top", None),
             Opt("user_id", None)>>
      [] tool = "list_events" ->
           <<Req("client"), Opt("expand_recurring_events", None),
             Opt("filter", None), Opt("orderby", None),
             Opt("select", None), Opt("skip", None),
             Opt("timezone", None), Opt("top", None),
             Opt("user_id", None)>>
      [] tool = "get_message" ->
           <<Req("client"), Req("message_id"), Opt("select", None),
             Opt("user_id", None)>>
      [] tool = "get_contact" ->
           <<Req("client"), Req("contact_id"), Opt("user_id", None)>>
      [] tool = "update_contact" ->
           <<Req("client"), Req("contact_id"), Opt("givenName", None),
             Opt("surname", None), Opt("displayName", None),
             Opt("emailAddresses", None), Opt("businessPhones",
             None), Opt("mobilePhone", None), Opt("homePhones",
             None), Opt("companyName", None), Opt("department",
             None), Opt("jobTitle", None), Opt("officeLocation",
             None), Opt("birthday", None), Opt("categories",
             None), Opt("notes", None), Opt("user_id", None)>>
      [] tool = "delete_contact" ->
           <<Req("client"), Req("contact_id"), Opt("user_id", None)>>
      [] tool = "create_event" ->
           <<Req("client"), Req("subject"), Req("body"),
             Req("start_datetime"), Req("end_datetime"),
             Req("time_zone"), Opt("location", None),
             Opt("attendees_info", None), Opt("categories", None),
             Opt("is_html", None), Opt("is_online_meeting", None),
             Opt("online_meeting_provider", None), Opt("show_as",
             None), Opt("user_id", None)>>
      [] tool = "get_event" ->
           <<Req("client"), Req("event_id"), Opt("user_id", None)>>
      [] tool = "delete_event" ->
           <<Req("client"), Req("event_id"), Opt("send_notifications", None),
             Opt("user_id", None)>>
      [] tool = "create_mail_folder" ->
           <<Req("client"), Req("displayName"), Opt("isHidden", None),
             Opt("user_id", None)>>
      [] tool = "delete_mail_folder" ->
           <<Req("client"), Req("folder_id"), Opt("user_id", None)>>

\* repr(default) for the defaults a signature holds, None and strings, as the
\* tokens of the Python literal; and the value the literal evaluates to when
\* the generated source is executed.
repr(v) == IF v = None THEN <<"None">> ELSE <<"'", v[1], "'">>
eval(literal) == IF literal = <<"None">> THEN None ELSE Some(literal[2])

\* create_dynamic_wrapper, writing every parameter into the declaration
\* without its default.
create_dynamic_wrapper_drops_defaults(sig) ==
    LET params == SelectSeq(sig, LAMBDA q : q.name # "client")
    IN  [decl |-> [i \in 1..Len(params) |->
                     [name |-> params[i].name, has_default |-> FALSE,
                      literal |-> <<>>]],
         names |-> [i \in 1..Len(params) |-> params[i].name]]

\* create_dynamic_wrapper: the declaration of the generated wrapper (each
\* parameter but client, with the literal of its default) and the names it
\* puts into kwargs.
create_dynamic_wrapper(sig) ==
    LET params == SelectSeq(sig, LAMBDA q : q.name # "client")
    IN  [decl |-> [i \in 1..Len(params) |->
                     [name |-> params[i].name,
                      has_default |-> params[i].has_default,
                      literal |-> IF params[i].has_default
                                  THEN repr(params[i].default) ELSE <<>>]],
         names |-> [i \in 1..Len(params) |-> params[i].name]]

\* Calling the generated wrapper with the arguments supplied (a function from
\* the names given to their values): Python binds each parameter to the value
\* supplied or to its default, and the first line of the wrapper collects them
\* in kwargs.  A missing argument without default or an argument the
\* declaration does not know is a TypeError.
bind_arguments(w, supplied) ==
    LET declared == {w.decl[i].name : i \in 1..Len(w.decl)}
        required == {w.decl[i].name :
                        i \in {j \in 1..Len(w.decl) : ~w.decl[j].has_default}}
        literal_of(n) ==
            (CHOOSE i \in 1..Len(w.decl) : w.decl[i].name = n)
        names == {w.names[i] : i \in 1..Len(w.names)}
    IN  IF ~(DOMAIN supplied \subseteq declared)
           \/ ~(required \subseteq DOMAIN supplied)
        THEN [raised |-> TRUE, kwargs |-> <<>>]
        ELSE [raised |-> FALSE,
              kwargs |-> [n \in names |->
                            IF n \in DOMAIN supplied THEN supplied[n]
                            ELSE eval(w.decl[literal_of(n)].literal)]]

\* What a tool hands to client.request: the method, the endpoint, the params=
\* and json= documents and the Prefer header of headers= ("" when absent).
Request(method, endpoint, params, json, prefer) ==
    [method |-> method, endpoint |-> endpoint, params |-> params,
     json |-> json, prefer |-> prefer]

\* bool(d) for an Optional[dict] parameter, a dict being a function from its
\* keys to its values.
truthy_dict(x) == x # None /\ DOMAIN x[1] # {}

\* The leaves [{"emailAddress": {"address": email}} for email in emails]
\* puts under key.
recipients(key, emails) ==
    {Leaf(<<"message", key, ToString(i - 1), "emailAddress", "address">>,
          Some(emails[i])) : i \in 1..Len(emails)}

\* The request send_email builds.
send_email_request(kw) ==
    LET message ==
          {Leaf(<<"message", "subject">>, kw.subject),
           Leaf(<<"message", "body", "contentType">>,
                Some(IF truthy_bool(kw.is_html) THEN "HTML" ELSE "Text")),
           Leaf(<<"message", "body", "content">>, kw.body),
           Leaf(<<"message", "toRecipients", "0", "emailAddress", "address">>,
                kw.to_email),
           Leaf(<<"message", "toRecipients", "0", "emailAddress", "name">>,
                IF truthy_str(kw.to_name) THEN kw.to_name ELSE kw.to_email)}
          \cup (IF truthy_list(kw.cc_emails)
                THEN recipients("ccRecipients", kw.cc_emails[1]) ELSE {})
          \cup (IF truthy_list(kw.bcc_emails)
                THEN recipients("bccRecipients", kw.bcc_emails[1]) ELSE {})
          \cup (IF truthy_dict(kw.attachment)
                THEN {Leaf(<<"message", "attachments", "0", "@odata.type">>,
                           Some("#microsoft.graph.fileAttachment")),
                      Leaf(<<"message", "attachments", "0", "name">>,
                           dict_get(kw.attachment[1], "name", None)),
                      Leaf(<<"message", "attachments", "0", "contentType">>,
                           dict_get(kw.attachment[1], "contentType",
                                    Some("application/octet-stream"))),
                      Leaf(<<"message", "attachments", "0", "contentBytes">>,
                           dict_get(kw.attachment[1], "contentBytes", None))}
                ELSE {})
        send_data ==
          message \cup LeafIf(kw.save_to_sent_items # None,
                              <<"saveToSentItems">>, kw.save_to_sent_items)
    IN  Request("POST", "/" \o user_of(kw) \o "/sendMail", {}, send_data, "")

\* The request create_contact builds.
create_contact_request(kw) ==
    LET contact_data ==
          LeafIf(kw.givenName # None, <<"givenName">>, kw.givenName)
          \cup LeafIf(kw.surname # None, <<"surname">>, kw.surname)
          \cup LeafIf(kw.displayName # None, <<"displayName">>, kw.displayName)
          \cup LeafIf(kw.emailAddresses # None, <<"emailAddresses">>,
                      kw.emailAddresses)
          \cup LeafIf(kw.businessPhones # None, <<"businessPhones">>,
                      kw.businessPhones)
          \cup LeafIf(kw.mobilePhone # None, <<"mobilePhone">>, kw.mobilePhone)
          \cup (IF kw.homePhone # None
                THEN {Leaf(<<"homePhones">>, Some(<<kw.homePhone[1]>>))}
                ELSE {})
          \cup LeafIf(kw.companyName # None, <<"companyName">>, kw.companyName)
          \cup LeafIf(kw.department # None, <<"department">>, kw.department)
          \cup LeafIf(kw.jobTitle # None, <<"jobTitle">>, kw.jobTitle)
          \cup LeafIf(kw.officeLocation # None, <<"officeLocation">>,
                      kw.officeLocation)
          \cup LeafIf(kw.birthday # None, <<"birthday">>, kw.birthday)
          \cup LeafIf(kw.categories # None, <<"categories">>, kw.categories)
          \cup LeafIf(kw.notes # None, <<"personalNotes">>, kw.notes)
    IN  Request("POST", "/" \o user_of(kw) \o "/contacts", {}, contact_data,
                "")

\* The leaves of the "attendees" list create_event and update_calendar_event
\* build from a list of attendee dicts.
attendee_leaves(attendees) ==
    UNION {{Leaf(<<"attendees", ToString(i - 1), "emailAddress">>,
                 dict_get(attendees[i], "emailAddress", Some("{}"))),
            Leaf(<<"attendees", ToString(i - 1), "type">>,
                 dict_get(attendees[i], "type", Some("required")))}
           : i \in 1..Len(attendees)}

\* The request update_calendar_event builds.
update_calendar_event_request(kw) ==
    LET start ==
          IF kw.start_datetime # None \/ kw.time_zone # None
          THEN LeafIf(kw.start_datetime # None, <<"start", "dateTime">>,
                      kw.start_datetime)
               \cup LeafIf(kw.time_zone # None, <<"start", "timeZone">>,
                           kw.time_zone)
          ELSE {}
        end ==
          IF kw.end_datetime # None \/ kw.time_zone # None
          THEN LeafIf(kw.end_datetime # None, <<"end", "dateTime">>,
                      kw.end_datetime)
               \cup LeafIf(kw.time_zone # None, <<"end", "timeZone">>,
                           kw.time_zone)
          ELSE {}
        event_data ==
          LeafIf(kw.subject # None, <<"subject">>, kw.subject)
          \cup LeafIf(kw.body # None, <<"body">>, kw.body)
          \cup start \cup end
          \cup LeafIf(kw.location # None, <<"location">>, kw.location)
          \cup (IF kw.attendees # None THEN attendee_leaves(kw.attendees[1])
                ELSE {})
          \cup LeafIf(kw.categories # None, <<"categories">>, kw.categories)
          \cup LeafIf(kw.show_as # None, <<"showAs">>, kw.show_as)
    IN  Request("PATCH",
                "/" \o user_of(kw) \o "/events/" \o kw.event_id[1], {},
                event_data, "")

\* [text] if cond else []
PartIf(cond, text) == IF cond THEN <<text>> ELSE <<>>

\* The filter clauses list_messages collects, in order.
list_messages_filter_parts(kw) ==
    PartIf(truthy_str(kw.conversationId),
           "conversationId eq '" \o kw.conversationId[1] \o "'")
    \o PartIf(truthy_str(kw.from_address),
           "from/emailAddress/address eq '" \o kw.from_address[1] \o "'")
    \o PartIf(kw.has_attachments # None,
           "hasAttachments eq " \o lower_str(kw.has_attachments[1]))
    \o PartIf(truthy_str(kw.importance),
           "importance eq '" \o kw.importance[1] \o "'")
    \o PartIf(kw.is_read # None, "isRead eq " \o lower_str(kw.is_read[1]))
    \o PartIf(truthy_str(kw.received_date_time_ge),
           "receivedDateTime ge " \o kw.received_date_time_ge[1])
    \o PartIf(truthy_str(kw.received_date_time_gt),
           "receivedDateTime gt " \o kw.received_date_time_gt[1])
    \o PartIf(truthy_str(kw.received_date_time_le),
           "receivedDateTime le " \o kw.received_date_time_le[1])
    \o PartIf(truthy_str(kw.received_date_time_lt),
           "receivedDateTime lt " \o kw.received_date_time_lt[1])
    \o PartIf(truthy_str(kw.sent_date_time_gt),
           "sentDateTime gt " \o kw.sent_date_time_gt[1])
    \o PartIf(truthy_str(kw.sent_date_time_lt),
           "sentDateTime lt " \o kw.sent_date_time_lt[1])
    \o PartIf(truthy_str(kw.subject), "subject eq '" \o kw.subject[1] \o "'")
    \o PartIf(truthy_str(kw.subject_contains),
           "contains(subject, '" \o kw.subject_contains[1] \o "')")
    \o PartIf(truthy_str(kw.subject_startswith),
           "startswith(subject, '" \o kw.subject_startswith[1] \o "')")
    \o PartIf(truthy_str(kw.subject_endswith),
           "endswith(subject, '" \o kw.subject_endswith[1] \o "')")
    \o (IF truthy_list(kw.categories)
        THEN [i \in 1..Len(kw.categories[1]) |->
                "categories/any(c:c eq '" \o kw.categories[1][i] \o "')"]
        ELSE <<>>)

\* list_messages, joining the filter clauses with " or ".
list_messages_request_joins_with_or(kw) ==
    LET filter_parts == list_messages_filter_parts(kw)
        params ==
          LeafIf(Len(filter_parts) > 0, <<"$filter">>,
                 Some(join(" or ", filter_parts)))
          \cup LeafIf(truthy_list(kw.orderby), <<"$orderby">>,
                      Some(join(",", kw.orderby[1])))
          \cup LeafIf(truthy_list(kw.select), <<"$select">>,
                      Some(join(",", kw.select[1])))
          \cup LeafIf(kw.skip # None, <<"$skip">>, kw.skip)
          \cup LeafIf(kw.top # None, <<"$top">>, kw.top)
        user == user_of(kw)
    IN  Request("GET",
                IF truthy_str(kw.folder)
                THEN "/" \o user \o "/mailFolders/" \o kw.folder[1]
                     \o "/messages"
                ELSE "/" \o user \o "/messages",
                params, {}, "")

\* The request list_messages builds.
list_messages_request(kw) ==
    LET filter_parts == list_messages_filter_parts(kw)
        params ==
          LeafIf(Len(filter_parts) > 0, <<"$filter">>,
                 Some(join(" and ", filter_parts)))
          \cup LeafIf(truthy_list(kw.orderby), <<"$orderby">>,
                      Some(join(",", kw.orderby[1])))
          \cup LeafIf(truthy_list(kw.select), <<"$select">>,
                      Some(join(",", kw.select[1])))
          \cup LeafIf(kw.skip # None, <<"$skip">>, kw.skip)
          \cup LeafIf(kw.top # None, <<"$top">>, kw.top)
        user == user_of(kw)
    IN  Request("GET",
                IF truthy_str(kw.folder)
                THEN "/" \o user \o "/mailFolders/" \o kw.folder[1]
                     \o "/messages"
                ELSE "/" \o user \o "/messages",
                params, {}, "")

\* The request list_events builds.
list_events_request(kw) ==
    LET params ==
          LeafIf(truthy_str(kw.filter), <<"$filter">>, kw.filter)
          \cup LeafIf(truthy_list(kw.orderby), <<"$orderby">>,
                      Some(join(",", kw.orderby[1])))
          \cup LeafIf(truthy_list(kw.select), <<"$select">>,
                      Some(join(",", kw.select[1])))
          \cup LeafIf(kw.skip # None, <<"$skip">>, kw.skip)
          \cup LeafIf(kw.top # None, <<"$top">>, kw.top)
    IN  Request("GET", "/" \o user_of(kw) \o "/events", params, {},
                IF truthy_str(kw.timezone)
                THEN "outlook.timezone=\"" \o kw.timezone[1] \o "\""
                ELSE "")

\* The request get_message builds.
get_message_request(kw) ==
    Request("GET", "/" \o user_of(kw) \o "/messages/" \o kw.message_id[1],
            LeafIf(truthy_list(kw.select), <<"$select">>, kw.select), {}, "")

\* get_contact's request, addressed to the signed-in user whatever user_id is.
get_contact_request_for_me(kw) ==
    Request("GET", "/me/contacts/" \o kw.contact_id[1], {}, {}, "")

\* The request get_contact builds.
get_contact_request(kw) ==
    Request("GET", "/" \o user_of(kw) \o "/contacts/" \o kw.contact_id[1],
            {}, {}, "")

\* The request delete_contact builds.
delete_contact_request(kw) ==
    Request("DELETE", "/" \o user_of(kw) \o "/contacts/" \o kw.contact_id[1],
            {}, {}, "")

\* The request update_contact builds.
update_contact_request(kw) ==
    LET contact_data ==
          LeafIf(kw.givenName # None, <<"givenName">>, kw.givenName)
          \cup LeafIf(kw.surname # None, <<"surname">>, kw.surname)
          \cup LeafIf(kw.displayName # None, <<"displayName">>, kw.displayName)
          \cup LeafIf(kw.emailAddresses # None, <<"emailAddresses">>,
                      kw.emailAddresses)
          \cup LeafIf(kw.businessPhones # None, <<"businessPhones">>,
                      kw.businessPhones)
          \cup LeafIf(kw.mobilePhone # None, <<"mobilePhone">>, kw.mobilePhone)
          \cup LeafIf(kw.homePhones # None, <<"homePhones">>, kw.homePhones)
          \cup LeafIf(kw.companyName # None, <<"companyName">>, kw.companyName)
          \cup LeafIf(kw.department # None, <<"department">>, kw.department)
          \cup LeafIf(kw.jobTitle # None, <<"jobTitle">>, kw.jobTitle)
          \cup LeafIf(kw.officeLocation # None, <<"officeLocation">>,
                      kw.officeLocation)
          \cup LeafIf(kw.birthday # None, <<"birthday">>, kw.birthday)
          \cup LeafIf(kw.categories # None, <<"categories">>, kw.categories)
          \cup LeafIf(kw.notes # None, <<"personalNotes">>, kw.notes)
    IN  Request("PATCH",
                "/" \o user_of(kw) \o "/contacts/" \o kw.contact_id[1], {},
                contact_data, "")

\* The request create_event builds.
create_event_request(kw) ==
    LET event_data ==
          {Leaf(<<"subject">>, kw.subject),
           Leaf(<<"body", "contentType">>,
                Some(IF truthy_bool(kw.is_html) THEN "HTML" ELSE "Text")),
           Leaf(<<"body", "content">>, kw.body),
           Leaf(<<"start", "dateTime">>, kw.start_datetime),
           Leaf(<<"start", "timeZone">>, kw.time_zone),
           Leaf(<<"end", "dateTime">>, kw.end_datetime),
           Leaf(<<"end", "timeZone">>, kw.time_zone)}
          \cup LeafIf(kw.location # None, <<"location", "displayName">>,
                      kw.location)
          \cup (IF kw.attendees_info # None
                THEN attendee_leaves(kw.attendees_info[1]) ELSE {})
          \cup LeafIf(kw.categories # None, <<"categories">>, kw.categories)
          \cup LeafIf(kw.is_online_meeting # None, <<"isOnlineMeeting">>,
                      kw.is_online_meeting)
          \cup LeafIf(kw.online_meeting_provider # None,
                      <<"onlineMeetingProvider">>, kw.online_meeting_provider)
          \cup LeafIf(kw.show_as # None, <<"showAs">>, kw.show_as)
    IN  Request("POST", "/" \o user_of(kw) \o "/events", {}, event_data, "")

\* The request get_event builds.
get_event_request(kw) ==
    Request("GET", "/" \o user_of(kw) \o "/events/" \o kw.event_id[1],
            {}, {}, "")

\* The request delete_event builds.
delete_event_request(kw) ==
    Request("DELETE", "/" \o user_of(kw) \o "/events/" \o kw.event_id[1],
            {}, {},
            IF kw.send_notifications = Some(FALSE)
            THEN "outlook.notification-handling=suppress" ELSE "")

\* The request create_mail_folder builds.
create_mail_folder_request(kw) ==
    Request("POST", "/" \o user_of(kw) \o "/mailFolders", {},
            {Leaf(<<"displayName">>, kw.displayName)}
            \cup LeafIf(kw.isHidden # None, <<"isHidden">>, kw.isHidden),
            "")

\* The request delete_mail_folder builds.
delete_mail_folder_request(kw) ==
    Request("DELETE",
            "/" \o user_of(kw) \o "/mailFolders/" \o kw.folder_id[1],
            {}, {}, "")

\* The request the tool builds from the arguments kw it received.
request_of(tool, kw) ==
    CASE tool = "send_email" -> send_email_request(kw)
      [] tool = "create_contact" -> create_contact_request(kw)
      [] tool = "update_calendar_event" -> update_calendar_event_request(kw)
      [] tool = "list_messages" -> list_messages_request(kw)
      [] tool = "list_events" -> list_events_request(kw)
      [] tool = "get_message" -> get_message_request(kw)
      [] tool = "get_contact" -> get_contact_request(kw)
      [] tool = "delete_contact" -> delete_contact_request(kw)
      [] tool = "update_contact" -> update_contact_request(kw)
      [] tool = "create_event" -> create_event_request(kw)
      [] tool = "get_event" -> get_event_request(kw)
      [] tool = "delete_event" -> delete_event_request(kw)
      [] tool = "create_mail_folder" -> create_mail_folder_request(kw)
      [] tool = "delete_mail_folder" -> delete_mail_folder_request(kw)

\* An event with the payload kw.
EvWith(type, tok, kw) == [Ev(type, "", <<>>, tok, TRUE) EXCEPT !.kw = kw]

\* A tool function called with the client m and the arguments kw: the check
\* of is_authenticated, the request built from kw, the call of
\* client.request and the envelope.  The events "target" and "return" hold
\* the arguments the function received and the envelope it returned.
tool_function(m, tool, kw, o) ==
    Bind(Log(m, EvWith("target", m.tok, kw)), LAMBDA m0 :
    Bind(IF ~is_authenticated(m0)
         THEN [m |-> m0, env |-> Fail(NotAuthenticated)]
         ELSE Bind(request_of(tool, kw), LAMBDA q :
              Bind(request(m0, q.method, q.endpoint, q.prefer,
                           [params |-> q.params, json |-> q.json], o),
                   LAMBDA r :
              IF r.raised
              THEN [m |-> r.m, env |-> Fail(r.err)]
              ELSE [m |-> r.m,
                    env |-> Ok(success_data(
                                 CHOOSE t \in ToolTable : t.name = tool,
                                 r.ret))])),
         LAMBDA out :
    [m |-> Log(out.m, EvWith("return", out.m.tok, out.env)),
     env |-> out.env]))

----------------------------------------------------------------------------
\* What the outside world may answer during one invocation

\* The responses the Graph API may give when a JSON answer is one of J.
Responses(J) ==
    {Resp(200, "json", j) : j \in J}
    \cup {Resp(200, "invalid", EmptyObj)}
    \cup {Resp(st, "none", EmptyObj) : st \in Statuses}

R401 == Resp(401, "none", EmptyObj)

\* What may happen during one call of request: the first response and, after
\* a 401, the outcome of the silent acquisition and the second response.
\* (Fields a run never reads are fixed, so that one run is drawn once.)
ReqOracles(J) ==
    {[r1 |-> r, silent |-> "none", r2 |-> r] :
        r \in {x \in Responses(J) : x.status # 401}}
    \cup {[r1 |-> R401, silent |-> "none", r2 |-> R401]}
    \cup {[r1 |-> R401, silent |-> sl, r2 |-> r] :
        sl \in {"cached", "refreshed"}, r \in Responses(J)}

AnObject == JsonObj(TRUE, "absent", FALSE)
SimpleOracles == ReqOracles({AnObject})
DraftOracles == ReqOracles({AnObject, EmptyObj})
IsDraftOracles ==
    ReqOracles({JsonObj(TRUE, d, FALSE) : d \in {"true", "false", "absent"}})
AttachmentOracles == ReqOracles({JsonObj(TRUE, "absent", TRUE), AnObject})
UnusedOracle == [r1 |-> R401, silent |-> "none", r2 |-> R401]

\* What the identity provider and the file system do during get_client.
G(silent, flow, poll, write) ==
    [silent |-> silent, flow |-> flow, poll |-> poll, write |-> write]

UnusedG == G("none", "nocode", "fail", "ok")

GOracles ==
    IF state_client \/ ~env_client_id
    THEN {UnusedG}
    ELSE {G(sl, "nocode", "fail", "ok") : sl \in SilentOutcomes}
         \cup {G(sl, "raise", "fail", "ok") : sl \in SilentOutcomes}
         \cup {G(sl, "ok", "fail", "ok") : sl \in SilentOutcomes}
         \cup {G(sl, "ok", "token", w) :
                    sl \in SilentOutcomes, w \in WriteOutcomes}

----------------------------------------------------------------------------
\* Input schemas (src/src/main.py, remove_null_from_schema)

\* JSON values as json.load gives them: None, a string, a list, or a dict kept
\* as the sequence of its (key, value) items in insertion order.
JNone == [none |-> TRUE]
JStr(s) == [str |-> s]
JList(items) == [list |-> items]
JDict(items) == [dict |-> items]

\* isinstance(v, dict), isinstance(v, list)
is_dict(v) == "dict" \in DOMAIN v
is_list(v) == "list" \in DOMAIN v

\* The exception dict.update raises when its argument is no mapping.
UpdateRaised == [raised |-> TRUE]

\* d.get(key) for the items d of a dict.
items_get(d, key) ==
    IF \E i \in 1..Len(d) : d[i][1] = key
    THEN d[CHOOSE i \in 1..Len(d) : d[i][1] = key][2]
    ELSE JNone

\* d[key] = value: a key the dict has keeps its place.
items_set(d, key, value) ==
    IF \E i \in 1..Len(d) : d[i][1] = key
    THEN [i \in 1..Len(d) |-> IF d[i][1] = key THEN <<key, value>> ELSE d[i]]
    ELSE Append(d, <<key, value>>)

\* d.update(other)
RECURSIVE items_update(_, _)
items_update(d, other) ==
    IF other = <<>> THEN d
    ELSE items_update(items_set(d, other[1][1], other[1][2]), Tail(other))

\* [v for v in value if not (isinstance(v, dict) and v.get("type") == "null")]
without_null_members(value) ==
    SelectSeq(value, LAMBDA v :
                ~(is_dict(v) /\ items_get(v.dict, "type") = JStr("null")))

\* [v for v in value if v != "null"]
without_null_entries(value) == SelectSeq(value, LAMBDA v : v # JStr("null"))

\* remove_null_from_schema; schema_items(d, new_schema) is its loop over the
\* items d of a dict, new_schema being what the loop has built so far, and
\* tells whether the loop raised.
RECURSIVE remove_null_from_schema(_)
RECURSIVE schema_items(_, _)
remove_null_from_schema(schema) ==
    IF is_dict(schema)
    THEN Bind(schema_items(schema.dict, <<>>), LAMBDA loop :
           IF loop.raised THEN UpdateRaised ELSE JDict(loop.new_schema))
    ELSE IF is_list(schema)
    THEN Bind([i \in 1..Len(schema.list) |->
                 remove_null_from_schema(schema.list[i])], LAMBDA cleaned :
           IF \E i \in 1..Len(cleaned) : cleaned[i] = UpdateRaised
           THEN UpdateRaised
           ELSE JList(cleaned))
    ELSE schema

schema_items(d, new_schema) ==
    IF d = <<>> THEN [raised |-> FALSE, new_schema |-> new_schema]
    ELSE
      Bind(d[1][1], LAMBDA key :
      Bind(d[1][2], LAMBDA value :
      IF key = "anyOf" /\ is_list(value)
      THEN Bind(without_null_members(value.list), LAMBDA filtered :
             IF filtered = <<>> THEN schema_items(Tail(d), new_schema)
             ELSE IF Len(filtered) = 1
             THEN IF is_dict(filtered[1])
                  THEN schema_items(Tail(d),
                                    items_update(new_schema, filtered[1].dict))
                  ELSE [raised |-> TRUE, new_schema |-> new_schema]
             ELSE schema_items(Tail(d),
                               items_set(new_schema, key, JList(filtered))))
      ELSE IF /\ key = "type"
              /\ is_list(value)
              /\ \E i \in 1..Len(value.list) : value.list[i] = JStr("null")
      THEN Bind(without_null_entries(value.list), LAMBDA filtered :
             schema_items(Tail(d),
                          items_set(new_schema, "type",
                                    IF Len(filtered) = 1 THEN filtered[1]
                                    ELSE JList(filtered))))
      ELSE IF key = "type" /\ value = JStr("null")
      THEN schema_items(Tail(d), new_schema)
      ELSE IF key = "default" /\ value = JNone
      THEN schema_items(Tail(d), new_schema)
      ELSE IF is_dict(value) \/ is_list(value)
      THEN Bind(remove_null_from_schema(value), LAMBDA cleaned :
             IF cleaned = UpdateRaised
             THEN [raised |-> TRUE, new_schema |-> new_schema]
             ELSE schema_items(Tail(d), items_set(new_schema, key, cleaned)))
      ELSE schema_items(Tail(d), items_set(new_schema, key, value))))

----------------------------------------------------------------------------
\* Histories and the state before the first invocation

\* No invocation of a list or get tool is remembered.
NoMemo == [tool |-> "", kwargs |-> <<>>, request |-> <<>>]

----------------------------------------------------------------------------
\* The process

Idle == [active |-> FALSE, tool |-> "", raised |-> FALSE, exc |-> NoErr,
         entry_tok |-> NoToken, env |-> <<>>, ev |-> <<>>, auth |-> NoAuth,
         client |-> 0, supplied |-> <<>>]

\* The state an invocation leaves behind: the client and the cache file as
\* the machine m has them, and the outcome rec of the invocation.
CommitClient(m, rec) ==
    /\ m.next <= MaxTok + 1
    /\ state_client' = m.has
    /\ access_token' = m.tok
    /\ token_cache' = m.cache
    /\ has_state_changed' = m.hsc
    /\ token_cache_file' = m.disk
    /\ next_token' = m.next
    /\ n_constructed' = m.nctor
    /\ n_interactive' = m.ninter
    /\ ctor_silent' = m.csilent
    /\ last' = rec
    /\ invoked' = TRUE
    /\ UNCHANGED <<env_client_id, serving, input_schema, tool_parameters,
                   manifest, mcp_tools, crashed>>

\* An invocation that leaves the resources of the server as they are.
Commit(m, rec) ==
    /\ CommitClient(m, rec)
    /\ UNCHANGED <<graph, graph_next, created, memo>>

\* A call the protocol server makes: the tool, the caller's arguments and
\* what the Graph API answers to the first and the second request of the tool.
Call(tool, args, o1, o2) ==
    [tool |-> tool, args |-> args, o1 |-> o1, o2 |-> o2]

\* __func(client=client, **kwargs): the tool function the wrapper was built
\* for, applied to the shared client m and the caller's arguments.  The tools
\* modelled with their parameters receive them in call.args.kwargs.
func(m, call) ==
    CASE "kwargs" \in DOMAIN call.args ->
           tool_function(m, call.tool, call.args.kwargs, call.o1)
      [] call.tool = "create_draft" ->
           create_draft(m, call.args.attachment, call.o1, call.o2)
      [] call.tool = "update_email" ->
           update_email(m, call.args.body, call.args.other, call.o1, call.o2)
      [] call.tool = "add_event_attachment" ->
           add_event_attachment(m, call.args.file_path, call.args.text_content,
                                call.args.contentBytes, call.args.fs, call.o1)
      [] call.tool = "download_outlook_attachment" ->
           download_outlook_attachment(m, call.args.write, call.o1)
      [] OTHER ->
           simple_tool(m, CHOOSE t \in ToolTable : t.name = call.tool,
                       call.args.prefer, call.o1)

\* The function create_dynamic_wrapper builds for a tool: get_client(), then
\* the tool function with that client; nothing is caught.  The result is the
\* machine afterwards and the outcome of the invocation; client names the
\* OutlookClient object the tool function received (the first one constructed
\* is 1, the next 2, ...; 0 when the tool function was not called).
wrapper(call, g) ==
    Bind(get_client(Machine, g), LAMBDA gc :
    IF gc.raised
    THEN [m |-> gc.m,
          rec |-> [active |-> TRUE, tool |-> call.tool, raised |-> TRUE,
                   exc |-> gc.err, entry_tok |-> NoToken, env |-> <<>>,
                   ev |-> gc.m.ev, auth |-> gc.m.auth, client |-> 0,
                   supplied |-> <<>>]]
    ELSE Bind(func(gc.m, call), LAMBDA r :
         [m |-> r.m,
          rec |-> [active |-> TRUE, tool |-> call.tool, raised |-> FALSE,
                   exc |-> NoErr, entry_tok |-> gc.m.tok, env |-> r.env,
                   ev |-> r.m.ev, auth |-> gc.m.auth,
                   client |-> gc.m.nctor, supplied |-> <<>>]]))

TypeError == Err("TypeError", 0)

\* The protocol server calling the wrapper of a tool with the arguments
\* supplied: Python binds the arguments, then the body of the wrapper runs.
call_wrapper(tool, supplied, g, o) ==
    Bind(bind_arguments(create_dynamic_wrapper(signature(tool)), supplied),
         LAMBDA b :
    IF b.raised
    THEN [m |-> Machine,
          rec |-> [Idle EXCEPT !.active = TRUE, !.tool = tool,
                               !.raised = TRUE, !.exc = TypeError,
                               !.supplied = supplied]]
    ELSE Bind(wrapper(Call(tool, [kwargs |-> b.kwargs], o, UnusedOracle), g),
              LAMBDA w : [w EXCEPT !.rec.supplied = supplied]))

\* The protocol server calls one of the tools of ToolTable.
InvokeSimple ==
    /\ serving
    /\ ~last.active
    /\ \E t \in ToolTable, g \in GOracles, o \in SimpleOracles :
       \E prefer \in PreferOf(t.name) :
       \E w \in {wrapper(Call(t.name, [prefer |-> prefer], o, UnusedOracle),
                         g)} :
          Commit(w.m, w.rec)

\* The protocol server calls create_draft.  The second request is answered
\* only when the run makes one.
InvokeCreateDraft ==
    /\ serving
    /\ ~last.active
    /\ \E attachment \in BOOLEAN, g \in GOracles, o1 \in DraftOracles :
       \E w0 \in {wrapper(Call("create_draft", [attachment |-> attachment],
                               o1, UnusedOracle), g)} :
       \E o2 \in IF \E i \in 1..Len(w0.rec.ev) :
                       /\ w0.rec.ev[i].type = "send"
                       /\ w0.rec.ev[i].kw = "attachment_data"
                 THEN SimpleOracles ELSE {UnusedOracle} :
       \E w \in {wrapper(Call("create_draft", [attachment |-> attachment],
                              o1, o2), g)} :
          Commit(w.m, w.rec)

\* The protocol server calls update_email.  The second request is answered
\* only when the run makes one.
InvokeUpdateEmail ==
    /\ serving
    /\ ~last.active
    /\ \E body \in BodyArgs, other \in BOOLEAN, g \in GOracles,
          o1 \in IsDraftOracles :
       \E w0 \in {wrapper(Call("update_email",
                               [body |-> body, other |-> other],
                               o1, UnusedOracle), g)} :
       \E o2 \in IF \E i \in 1..Len(w0.rec.ev) :
                       /\ w0.rec.ev[i].type = "send"
                       /\ w0.rec.ev[i].method = "PATCH"
                 THEN SimpleOracles ELSE {UnusedOracle} :
       \E w \in {wrapper(Call("update_email",
                              [body |-> body, other |-> other], o1, o2), g)} :
          Commit(w.m, [w.rec EXCEPT !.supplied =
                                      [body |-> body, other |-> other]])

\* The protocol server calls add_event_attachment.
InvokeAddEventAttachment ==
    /\ serving
    /\ ~last.active
    /\ \E file_path \in BOOLEAN, text_content \in BOOLEAN,
          contentBytes \in BOOLEAN, g \in GOracles, o \in SimpleOracles :
       \E fs \in IF file_path THEN FsOutcomes ELSE {"ok"} :
       \E w \in {wrapper(Call("add_event_attachment",
                              [file_path |-> file_path,
                               text_content |-> text_content,
                               contentBytes |-> contentBytes, fs |-> fs],
                              o, UnusedOracle), g)} :
          Commit(w.m, [w.rec EXCEPT !.supplied =
                                      [file_path |-> file_path,
                                       text_content |-> text_content,
                                       contentBytes |-> contentBytes]])

\* The protocol server calls download_outlook_attachment.
InvokeDownloadAttachment ==
    /\ serving
    /\ ~last.active
    /\ \E write \in WriteOutcomes, g \in GOracles,
          o \in AttachmentOracles :
       \E w \in {wrapper(Call("download_outlook_attachment",
                              [write |-> write], o, UnusedOracle), g)} :
          Commit(w.m, w.rec)

\* tools_manifest.json as register_tools finds it.  The file exists or not;
\* json.load parses it or raises; the parsed value is a JSON object or another
\* JSON value; its "tools" member is absent, null or a list.
MaxEntries == 3

\* A manifest entry: a JSON object or another JSON value; an object has a
\* truthy "id" or not, a "target" that is absent, importable or not importable,
\* and its wrapping (create_dynamic_wrapper, FunctionTool.from_function,
\* remove_null_from_schema) and its mcp.add_tool succeed or raise.
OkEntry ==
    [is_dict |-> TRUE, id |-> TRUE, target |-> "importable", wraps |-> TRUE,
     adds |-> TRUE]

Entries ==
    { OkEntry,
      [OkEntry EXCEPT !.is_dict = FALSE],
      [OkEntry EXCEPT !.id = FALSE],
      [OkEntry EXCEPT !.target = "absent"],
      [OkEntry EXCEPT !.target = "unimportable"],
      [OkEntry EXCEPT !.wraps = FALSE],
      [OkEntry EXCEPT !.adds = FALSE] }

ManifestOf(tools) ==
    [exists |-> TRUE, parses |-> TRUE, is_dict |-> TRUE, has_tools |-> "list",
     tools |-> tools]

EntryLists == UNION { [1..n -> Entries] : n \in 0..MaxEntries }

Manifests ==
    { ManifestOf(t) : t \in EntryLists }
    \cup { [ManifestOf(<<>>) EXCEPT !.exists = FALSE],
           [ManifestOf(<<>>) EXCEPT !.parses = FALSE],
           [ManifestOf(<<>>) EXCEPT !.is_dict = FALSE],
           [ManifestOf(<<>>) EXCEPT !.has_tools = "absent"],
           [ManifestOf(<<>>) EXCEPT !.has_tools = "null"] }

\* A manifest all of whose entries are registered.
WellFormedManifest == ManifestOf([i \in 1..MaxEntries |-> OkEntry])

\* The loop of register_tools from entry i on, with the ids of the tools added
\* so far; the id of a tool is the position of its entry.  entry.get raises on
\* an entry that is not an object, outside every try block.
RECURSIVE register_entries(_, _, _)
register_entries(tools, i, added) ==
    IF i > Len(tools) THEN [raised |-> FALSE, tools |-> added]
    ELSE IF ~tools[i].is_dict THEN [raised |-> TRUE, tools |-> added]
    ELSE IF ~tools[i].id \/ tools[i].target = "absent"
      THEN register_entries(tools, i + 1, added)
    ELSE IF tools[i].target = "unimportable"
      THEN register_entries(tools, i + 1, added)
    ELSE IF ~tools[i].wraps THEN register_entries(tools, i + 1, added)
    ELSE IF ~tools[i].adds THEN register_entries(tools, i + 1, added)
    ELSE register_entries(tools, i + 1, Append(added, i))

\* register_tools as a whole: a missing manifest and one json.load rejects
\* return at once; manifest.get("tools", []) raises on a manifest that is not
\* an object, and the for statement raises on a "tools" member that is null.
register_tools_from(m) ==
    IF ~m.exists THEN [raised |-> FALSE, tools |-> <<>>]
    ELSE IF ~m.parses THEN [raised |-> FALSE, tools |-> <<>>]
    ELSE IF ~m.is_dict THEN [raised |-> TRUE, tools |-> <<>>]
    ELSE IF m.has_tools = "absent" THEN [raised |-> FALSE, tools |-> <<>>]
    ELSE IF m.has_tools = "null" THEN [raised |-> TRUE, tools |-> <<>>]
    ELSE register_entries(m.tools, 1, <<>>)

\* main: register_tools() binds each manifest entry to a wrapper, which
\* constructs no client and starts no authentication; then mcp.run() serves.
\* An exception of register_tools leaves main before mcp.run().
main ==
    /\ ~serving
    /\ ~crashed
    /\ \E r \in {register_tools_from(manifest)} :
          /\ mcp_tools' = r.tools
          /\ crashed' = r.raised
          /\ serving' = ~r.raised
    /\ UNCHANGED <<env_client_id, token_cache_file, state_client,
                   access_token, token_cache, has_state_changed, next_token,
                   n_constructed, n_interactive, ctor_silent, invoked,
                   graph, graph_next, created, memo, input_schema,
                   tool_parameters, manifest, last>>

\* The protocol server sends the reply (or the fault) to its caller and is
\* ready for the next call.
Deliver ==
    /\ last.active
    /\ last' = Idle
    /\ UNCHANGED <<env_client_id, token_cache_file, state_client,
                   access_token, token_cache, has_state_changed, next_token,
                   n_constructed, n_interactive, ctor_silent, serving,
                   invoked, graph, graph_next, created, memo, input_schema,
                   tool_parameters, manifest, mcp_tools, crashed>>

\* A cache file an earlier process of this program may have left: none, or
\* the cache after a sign-in, with the access token still in it or expired
\* and dropped.
InitialFiles ==
    {NoFile,
     [exists |-> TRUE,
      text |-> serialize([Account |-> TRUE, AccessToken |-> OldToken])],
     [exists |-> TRUE,
      text |-> serialize([Account |-> TRUE, AccessToken |-> NoToken])]}

Init ==
    /\ env_client_id \in BOOLEAN
    /\ token_cache_file \in InitialFiles
    /\ state_client = FALSE
    /\ access_token = NoToken
    /\ token_cache = EmptyCache
    /\ has_state_changed = FALSE
    /\ next_token = 1
    /\ n_constructed = 0
    /\ n_interactive = 0
    /\ ctor_silent = "none"
    /\ serving = FALSE
    /\ invoked = FALSE
    /\ graph = {}
    /\ graph_next = 1
    /\ created = {}
    /\ memo = NoMemo
    /\ input_schema = JNone
    /\ tool_parameters = JNone
    /\ manifest = WellFormedManifest
    /\ mcp_tools = <<>>
    /\ crashed = FALSE
    /\ last = Idle

Next ==
    \/ main
    \/ InvokeSimple
    \/ InvokeCreateDraft
    \/ InvokeUpdateEmail
    \/ InvokeAddEventAttachment
    \/ InvokeDownloadAttachment
    \/ Deliver

Spec == Init /\ [][Next]_vars

----------------------------------------------------------------------------
\* The tools with their parameters: a serving process whose client exists,
\* called with arguments from small sets

\* The arguments the caller supplies: those of kw that are not None.
supplied_of(kw) == [n \in {k \in DOMAIN kw : kw[k] # None} |-> kw[n]]

\* Every parameter of the tool but client, None.
AllNone(tool) ==
    [n \in {signature(tool)[i].name : i \in 1..Len(signature(tool))}
           \ {"client"} |-> None]

Users == {None, Some("users/u1")}

FullAttachment ==
    [name |-> "a.txt", contentType |-> "text/plain", contentBytes |-> "QUJD"]

SendEmailArgs ==
    {[AllNone("send_email") EXCEPT
        !.subject = Some("Hi"), !.body = Some("Test"),
        !.to_email = Some("a@b.com"), !.to_name = tn, !.cc_emails = cc,
        !.bcc_emails = bcc, !.is_html = h, !.attachment = a,
        !.save_to_sent_items = sv, !.user_id = u] :
     tn \in {None, Some("Bob")},
     cc \in {None, Some(<<>>), Some(<<"c@d.com", "e@f.com">>)},
     bcc \in {None, Some(<<"g@h.com">>)},
     h \in {None, Some(TRUE), Some(FALSE)},
     a \in {None, Some(<<>>), Some(FullAttachment),
            Some([contentBytes |-> "QUJD"])},
     sv \in {None, Some(FALSE)},
     u \in Users}

CreateContactArgs ==
    {[AllNone("create_contact") EXCEPT
        !.givenName = gn, !.homePhone = hp, !.categories = cat,
        !.notes = nt, !.user_id = u] :
     gn \in {None, Some(""), Some("Ann")},
     hp \in {None, Some("555")},
     cat \in {None, Some(<<>>), Some(<<"Red">>)},
     nt \in {None, Some("met at work")},
     u \in Users}

UpdateCalendarEventArgs ==
    {[AllNone("update_calendar_event") EXCEPT
        !.event_id = Some("e1"), !.subject = sb, !.start_datetime = st,
        !.end_datetime = en, !.time_zone = tz, !.attendees = att,
        !.show_as = sh, !.user_id = u] :
     sb \in {None, Some("Standup")},
     st \in {None, Some("2026-01-01T10:00:00")},
     en \in {None, Some("2026-01-01T11:00:00")},
     tz \in {None, Some("UTC")},
     att \in {None, Some(<<[type |-> "optional"]>>)},
     sh \in {None, Some("busy")},
     u \in Users}

ListMessagesArgs ==
    {[AllNone("list_messages") EXCEPT
        !.from_address = fa, !.has_attachments = ha, !.is_read = ir,
        !.subject = sb, !.categories = cat, !.folder = fo, !.top = tp,
        !.user_id = u] :
     fa \in {None, Some("a@b.com")},
     ha \in {None, Some(FALSE)},
     ir \in {None, Some(TRUE), Some(FALSE)},
     sb \in {None, Some(""), Some("Hi")},
     cat \in {None, Some(<<"Red", "Blue">>)},
     fo \in {None, Some(""), Some("inbox")},
     tp \in {None, Some(0)},
     u \in Users}

\* What the Graph API answers to the tools called with their parameters.
ToolOracles ==
    {[r1 |-> r, silent |-> "none", r2 |-> r] :
        r \in {Resp(200, "json", AnObject), Resp(200, "none", EmptyObj),
               Resp(200, "invalid", EmptyObj), Resp(404, "none", EmptyObj)}}
    \cup {[r1 |-> R401, silent |-> "none", r2 |-> R401],
          [r1 |-> R401, silent |-> "refreshed",
           r2 |-> Resp(200, "none", EmptyObj)]}

FewOracles ==
    {[r1 |-> r, silent |-> "none", r2 |-> r] :
        r \in {Resp(200, "json", AnObject), Resp(404, "none", EmptyObj)}}

InvokeSendEmail ==
    /\ serving
    /\ ~last.active
    /\ \E kw \in SendEmailArgs, o \in ToolOracles :
       \E w \in {call_wrapper("send_email", supplied_of(kw), UnusedG, o)} :
          Commit(w.m, w.rec)

InvokeCreateContact ==
    /\ serving
    /\ ~last.active
    /\ \E kw \in CreateContactArgs, o \in ToolOracles :
       \E w \in {call_wrapper("create_contact", supplied_of(kw), UnusedG,
                              o)} :
          Commit(w.m, w.rec)

InvokeUpdateCalendarEvent ==
    /\ serving
    /\ ~last.active
    /\ \E kw \in UpdateCalendarEventArgs, o \in ToolOracles :
       \E w \in {call_wrapper("update_calendar_event", supplied_of(kw),
                              UnusedG, o)} :
          Commit(w.m, w.rec)

InvokeListMessages ==
    /\ serving
    /\ ~last.active
    /\ \E kw \in ListMessagesArgs, o \in FewOracles :
       \E w \in {call_wrapper("list_messages", supplied_of(kw), UnusedG,
                              o)} :
          Commit(w.m, w.rec)

\* The process after main() and a first invocation that constructed the
\* client: signed in through the device-code flow, or left without a token by
\* a flow that failed.
InitServing ==
    /\ env_client_id = TRUE
    /\ state_client = TRUE
    /\ \/ /\ access_token = 1
          /\ token_cache = [Account |-> TRUE, AccessToken |-> 1]
          /\ token_cache_file =
                [exists |-> TRUE, text |-> serialize(token_cache)]
          /\ next_token = 2
       \/ /\ access_token = NoToken
          /\ token_cache = EmptyCache
          /\ token_cache_file = NoFile
          /\ next_token = 1
    /\ has_state_changed = FALSE
    /\ n_constructed = 1
    /\ n_interactive = 1
    /\ ctor_silent = "failed"
    /\ serving = TRUE
    /\ invoked = TRUE
    /\ graph = {}
    /\ graph_next = 1
    /\ created = {}
    /\ memo = NoMemo
    /\ input_schema = JNone
    /\ tool_parameters = JNone
    /\ manifest = WellFormedManifest
    /\ mcp_tools = register_tools_from(WellFormedManifest).tools
    /\ crashed = FALSE
    /\ last = Idle

NextTools ==
    \/ InvokeSendEmail
    \/ InvokeCreateContact
    \/ InvokeUpdateCalendarEvent
    \/ InvokeListMessages
    \/ Deliver

ToolSpec == InitServing /\ [][NextTools]_vars

----------------------------------------------------------------------------
\* Created resources used again (src/src/tools/contact_tools.py,
\* calendar_tools.py, folder_tools.py against a Graph API that keeps them)

\* How many identifiers the Graph API mints in one run.
MaxIds == 2

\* The identifier the Graph API gives the n-th resource it creates.
IdOf(n) == "id" \o ToString(n)

\* The JSON object of a resource: client.py returns response.json().
Created(id) ==
    [hasId |-> TRUE, isDraft |-> "absent", hasBytes |-> FALSE, id |-> id]

\* The create tools, and for each the parameter that names the resource in
\* the tools that read, change or delete what it created.
CreateTools == {"create_contact", "create_event", "create_mail_folder"}

UseTools(create) ==
    CASE create = "create_contact" ->
           {"get_contact", "update_contact", "delete_contact"}
      [] create = "create_event" ->
           {"get_event", "update_calendar_event", "delete_event"}
      [] create = "create_mail_folder" -> {"delete_mail_folder"}

IdParam(create) ==
    CASE create = "create_contact" -> "contact_id"
      [] create = "create_event" -> "event_id"
      [] create = "create_mail_folder" -> "folder_id"

\* The arguments the create tools are called with.
CreateArgs(tool) ==
    CASE tool = "create_contact" ->
           {[AllNone(tool) EXCEPT !.givenName = Some("Ann"), !.user_id = u] :
            u \in Users}
      [] tool = "create_event" ->
           {[AllNone(tool) EXCEPT
               !.subject = Some("Standup"), !.body = Some("Daily"),
               !.start_datetime = Some("2026-01-01T10:00:00"),
               !.end_datetime = Some("2026-01-01T11:00:00"),
               !.time_zone = Some("UTC"), !.user_id = u] :
            u \in Users}
      [] tool = "create_mail_folder" ->
           {[AllNone(tool) EXCEPT
               !.displayName = Some("Projects"), !.user_id = u] :
            u \in Users}

\* The arguments the get, update and delete tools are called with: any
\* identifier the Graph API may have minted, for any user.
UseArgs(create, tool) ==
    {[[AllNone(tool) EXCEPT ![IdParam(create)] = Some(IdOf(n)),
                            !.user_id = u]
        EXCEPT ![IF tool = "update_contact" THEN "givenName"
                 ELSE IF tool = "update_calendar_event" THEN "subject"
                 ELSE "user_id"] =
               IF tool = "update_contact" THEN Some("Bob")
               ELSE IF tool = "update_calendar_event" THEN Some("Retro")
               ELSE u] :
     n \in 1..MaxIds, u \in Users}

\* What the Graph API does with a request, resources being the URLs of the
\* resources it holds: a POST to a collection creates a resource under a new
\* identifier, a GET or PATCH answers with the resource, a DELETE removes it,
\* and a resource it does not hold is 404.
graph_api(resources, next, method, url) ==
    CASE method = "POST" ->
           [resp |-> Resp(201, "json", Created(IdOf(next))),
            resources |-> resources \cup {url \o "/" \o IdOf(next)},
            next |-> next + 1]
      [] method = "DELETE" /\ url \in resources ->
           [resp |-> Resp(204, "none", EmptyObj),
            resources |-> resources \ {url}, next |-> next]
      [] method \in {"GET", "PATCH"} /\ url \in resources ->
           [resp |-> Resp(200, "json", AnObject),
            resources |-> resources, next |-> next]
      [] OTHER ->
           [resp |-> Resp(404, "none", EmptyObj),
            resources |-> resources, next |-> next]

\* One invocation of tool with the arguments kw against that Graph API. The
\* API acts when the request reaches it, that is when the invocation sent it.
InvokeAgainstGraph(tool, kw) ==
    \E q \in {request_of(tool, kw)} :
    \E a \in {graph_api(graph, graph_next, q.method,
                        GRAPH_API_ENDPOINT \o q.endpoint)} :
    \E w \in {call_wrapper(tool, supplied_of(kw), UnusedG,
                           [r1 |-> a.resp, silent |-> "none",
                            r2 |-> a.resp])} :
    \E sent \in {\E k \in 1..Len(w.rec.ev) : w.rec.ev[k].type = "send"} :
       /\ CommitClient(w.m, w.rec)
       /\ graph' = IF sent THEN a.resources ELSE graph
       /\ graph_next' = IF sent THEN a.next ELSE graph_next
       /\ created' =
            IF tool \in CreateTools /\ ~w.rec.raised /\ w.rec.env.successful
            THEN created \cup
                   {[tool |-> tool, user_id |-> kw.user_id,
                     id |-> w.rec.env.data.json.id,
                     collection |-> GRAPH_API_ENDPOINT \o q.endpoint]}
            ELSE created
       /\ UNCHANGED memo

InvokeCreate ==
    /\ serving
    /\ ~last.active
    /\ graph_next <= MaxIds
    /\ \E tool \in CreateTools : \E kw \in CreateArgs(tool) :
          InvokeAgainstGraph(tool, kw)

InvokeUse ==
    /\ serving
    /\ ~last.active
    /\ \E create \in CreateTools : \E tool \in UseTools(create) :
       \E kw \in UseArgs(create, tool) :
          InvokeAgainstGraph(tool, kw)

NextRoundTrip ==
    \/ InvokeCreate
    \/ InvokeUse
    \/ Deliver

RoundTripSpec == InitServing /\ [][NextRoundTrip]_vars

----------------------------------------------------------------------------
\* List and get tools invoked again (src/src/tools/list_tools.py,
\* mail_tools.py), other invocations in between

ListEventsArgs ==
    {[AllNone("list_events") EXCEPT
        !.filter = f, !.orderby = ob, !.timezone = tz, !.top = tp,
        !.user_id = u] :
     f \in {None, Some("isCancelled eq false")},
     ob \in {None, Some(<<"start/dateTime", "subject">>)},
     tz \in {None, Some("UTC")},
     tp \in {None, Some(5)},
     u \in Users}

GetMessageArgs ==
    {[AllNone("get_message") EXCEPT
        !.message_id = Some(id), !.select = sel, !.user_id = u] :
     id \in {"m1", "m2"},
     sel \in {None, Some(<<"subject", "from">>)},
     u \in Users}

\* The request an invocation constructed: what its first call of
\* requests.request was given, but for the bearer token.
constructed_request(rec) ==
    Bind(rec.ev[CHOOSE x \in 1..Len(rec.ev) :
                  /\ rec.ev[x].type = "send"
                  /\ \A y \in 1..(x - 1) : rec.ev[y].type # "send"],
         LAMBDA e :
    [method |-> e.method, url |-> e.url, params |-> e.kw.params,
     json |-> e.kw.json, Prefer |-> e.headers.Prefer,
     ContentType |-> e.headers.ContentType])

\* One invocation of a list or get tool; the history may keep it (keep) as the
\* invocation later ones are compared with.
InvokeAndRemember(tool, kw, o, keep) ==
    \E w \in {call_wrapper(tool, supplied_of(kw), UnusedG, o)} :
    \E sends \in {{k \in 1..Len(w.rec.ev) : w.rec.ev[k].type = "send"}} :
       /\ CommitClient(w.m, w.rec)
       /\ memo' =
            IF keep /\ sends # {}
            THEN [tool |-> tool, kwargs |-> kw,
                  request |-> constructed_request(w.rec)]
            ELSE memo
       /\ UNCHANGED <<graph, graph_next, created>>

InvokeListEvents ==
    /\ serving
    /\ ~last.active
    /\ \E kw \in ListEventsArgs, o \in ToolOracles, keep \in BOOLEAN :
          InvokeAndRemember("list_events", kw, o, keep)

InvokeGetMessage ==
    /\ serving
    /\ ~last.active
    /\ \E kw \in GetMessageArgs, o \in ToolOracles, keep \in BOOLEAN :
          InvokeAndRemember("get_message", kw, o, keep)

NextRepeat ==
    \/ InvokeListEvents
    \/ InvokeGetMessage
    \/ InvokeCreateContact
    \/ Deliver

RepeatSpec == InitServing /\ [][NextRepeat]_vars

----------------------------------------------------------------------------
\* Registration of a tool whose manifest entry carries an input schema
\* (src/src/main.py, register_tools)

\* The longest anyOf of the schemas registered.
MaxMembers == 2

SeqsUpTo(S, n) == UNION {[1..k -> S] : k \in 1..n}

\* The values of "type".
Types ==
    {JStr("string"), JStr("null"), JList(<<JStr("string"), JStr("null")>>),
     JList(<<JStr("null")>>)}

\* {"type": t} and {"type": "string", "default": d}
Plain ==
    {JDict(<< <<"type", t>> >>) : t \in Types}
    \cup {JDict(<< <<"type", JStr("string")>>, <<"default", d>> >>) :
            d \in {JNone, JStr("x")}}

\* {"type": "array", "items": s}
ArraysOf(S) ==
    {JDict(<< <<"type", JStr("array")>>, <<"items", s>> >>) : s \in S}

\* {"anyOf": [...]} over the members M, alone, after a "type" of its own, or
\* before "default": None, as an Optional parameter has it.
AnyOfs(M) ==
    {JDict(head \o << <<"anyOf", JList(ms)>> >> \o tail) :
        ms \in SeqsUpTo(M, MaxMembers),
        head \in {<<>>, << <<"type", JStr("integer")>> >>},
        tail \in {<<>>, << <<"default", JNone>> >>}}

\* {"type": "object", "properties": {"p": s}}
ObjectsOf(S) ==
    {JDict(<< <<"type", JStr("object")>>,
              <<"properties", JDict(<< <<"p", s>> >>)>> >>) : s \in S}

\* An Optional[List[Optional[str]]] parameter, as a schema generator writes
\* it.
OptionalListOfOptional ==
    JDict(<< <<"anyOf",
               JList(<<JDict(<< <<"type", JStr("array")>>,
                                <<"items",
                                  JDict(<< <<"anyOf",
                                             JList(<<JDict(<< <<"type", JStr("string")>> >>),
                                                     JDict(<< <<"type", JStr("null")>> >>)>>)>> >>)>> >>),
                       JDict(<< <<"type", JStr("null")>> >>)>>)>>,
             <<"default", JNone>> >>)

\* The input schemas a manifest entry may hold: none, an empty one, and
\* schemas nested up to an anyOf within an array within an object.
Schemas ==
    {JNone, JDict(<<>>), OptionalListOfOptional}
    \cup Plain
    \cup AnyOfs(Plain \cup {JStr("string")})
    \cup ArraysOf(AnyOfs({JDict(<< <<"type", t>> >>) :
                             t \in {JStr("string"), JStr("null")}}))
    \cup ObjectsOf(Plain \cup {OptionalListOfOptional}
                   \cup AnyOfs({JDict(<< <<"type", t>> >>) :
                                   t \in {JStr("string"), JStr("null")}}))

\* bool(input_schema) for what entry.get("input_schema") gives.
truthy_schema(v) == v # JNone /\ v # JDict(<<>>) /\ v # JList(<<>>)

\* register_tools comes to a manifest entry: a truthy input schema is cleaned
\* and becomes the parameters of the tool; if cleaning raises, the tool is not
\* registered.
register_tools ==
    /\ ~serving
    /\ tool_parameters = JNone
    /\ truthy_schema(input_schema)
    /\ \E cleaned_schema \in {remove_null_from_schema(input_schema)} :
          /\ cleaned_schema # UpdateRaised
          /\ tool_parameters' = cleaned_schema
    /\ UNCHANGED <<env_client_id, token_cache_file, state_client,
                   access_token, token_cache, has_state_changed, next_token,
                   n_constructed, n_interactive, ctor_silent, serving,
                   invoked, graph, graph_next, created, memo, input_schema,
                   manifest, mcp_tools, crashed, last>>

\* The process as main() starts it, before the tool of one manifest entry is
\* registered.
InitRegistering ==
    /\ env_client_id \in BOOLEAN
    /\ token_cache_file \in InitialFiles
    /\ state_client = FALSE
    /\ access_token = NoToken
    /\ token_cache = EmptyCache
    /\ has_state_changed = FALSE
    /\ next_token = 1
    /\ n_constructed = 0
    /\ n_interactive = 0
    /\ ctor_silent = "none"
    /\ serving = FALSE
    /\ invoked = FALSE
    /\ graph = {}
    /\ graph_next = 1
    /\ created = {}
    /\ memo = NoMemo
    /\ input_schema \in Schemas
    /\ tool_parameters = JNone
    /\ manifest = WellFormedManifest
    /\ mcp_tools = <<>>
    /\ crashed = FALSE
    /\ last = Idle

NextRegistering == register_tools

SchemaSpec == InitRegistering /\ [][NextRegistering]_vars

----------------------------------------------------------------------------
\* The tools whose parameters the specification wants validated
\* (update_email, update_contact, create_event)

UpdateContactArgs ==
    {[AllNone("update_contact") EXCEPT
        !.contact_id = Some("c1"), !.givenName = gn, !.categories = cat,
        !.user_id = u] :
     gn \in {None, Some("Bob")},
     cat \in {None, Some(<<>>)},
     u \in Users}

\* The date-times events are created with, in chronological order.
DateTimes ==
    <<"2026-01-01T10:00:00", "2026-01-01T11:00:00", "2026-01-02T09:00:00">>

CreateEventArgs ==
    {[AllNone("create_event") EXCEPT
        !.subject = Some("Standup"), !.body = Some("Daily"),
        !.start_datetime = Some(DateTimes[s]),
        !.end_datetime = Some(DateTimes[e]),
        !.time_zone = Some("UTC"), !.location = loc, !.user_id = u] :
     s \in 1..Len(DateTimes), e \in 1..Len(DateTimes),
     loc \in {None, Some("Room 1")},
     u \in Users}

InvokeUpdateContact ==
    /\ serving
    /\ ~last.active
    /\ \E kw \in UpdateContactArgs, o \in FewOracles :
       \E w \in {call_wrapper("update_contact", supplied_of(kw), UnusedG,
                              o)} :
          Commit(w.m, w.rec)

InvokeCreateEvent ==
    /\ serving
    /\ ~last.active
    /\ \E kw \in CreateEventArgs, o \in FewOracles :
       \E w \in {call_wrapper("create_event", supplied_of(kw), UnusedG, o)} :
          Commit(w.m, w.rec)

NextValidation ==
    \/ InvokeUpdateEmail
    \/ InvokeUpdateContact
    \/ InvokeCreateEvent
    \/ Deliver

ValidationSpec == InitServing /\ [][NextValidation]_vars

----------------------------------------------------------------------------
\* The process started on any manifest: main() registers the tools and runs
\* the server.
InitManifest ==
    /\ env_client_id \in BOOLEAN
    /\ token_cache_file = NoFile
    /\ state_client = FALSE
    /\ access_token = NoToken
    /\ token_cache = EmptyCache
    /\ has_state_changed = FALSE
    /\ next_token = 1
    /\ n_constructed = 0
    /\ n_interactive = 0
    /\ ctor_silent = "none"
    /\ serving = FALSE
    /\ invoked = FALSE
    /\ graph = {}
    /\ graph_next = 1
    /\ created = {}
    /\ memo = NoMemo
    /\ input_schema = JNone
    /\ tool_parameters = JNone
    /\ manifest \in Manifests
    /\ mcp_tools = <<>>
    /\ crashed = FALSE
    /\ last = Idle

NextManifest == main

ManifestSpec == InitManifest /\ [][NextManifest]_vars

----------------------------------------------------------------------------
\* Reading the events of the invocation in last

Idx == 1..Len(last.ev)

\* The calls of request in the invocation, each named by the index of its
\* "request" event.
ReqStarts == {i \in Idx : last.ev[i].type = "request"}

\* Event k belongs to the call of request that starts at r.
InReq(r, k) ==
    /\ r < k
    /\ \A x \in (r + 1)..k : last.ev[x].type # "request"

SendsOf(r) == {k \in Idx : InReq(r, k) /\ last.ev[k].type = "send"}
LoadsOf(r) == {k \in Idx : InReq(r, k) /\ last.ev[k].type = "load"}
EndsOf(r) == {k \in Idx : InReq(r, k) /\ last.ev[k].type = "req_end"}
AllSends == {k \in Idx : last.ev[k].type = "send"}
EventsOfType(type) == {k \in Idx : last.ev[k].type = type}

Min(S) == CHOOSE x \in S : \A y \in S : x <= y
Max(S) == CHOOSE x \in S : \A y \in S : x >= y

\* The invocation returned an envelope to the protocol server.
Returned == last.active /\ ~last.raised

\* The arguments the tool function received (tools called with parameters).
Kwargs == last.ev[Min(EventsOfType("target"))].kw

\* The params= and json= documents of the request sent at event k.
Documents(k) == last.ev[k].kw.params \cup last.ev[k].kw.json

\* Path p begins with the keys of prefix.
HasPrefix(prefix, p) ==
    Len(prefix) <= Len(p) /\ SubSeq(p, 1, Len(prefix)) = prefix

\* The parameters of a tool but client, as a set of names.
ParamNames(tool) ==
    {signature(tool)[i].name : i \in 1..Len(signature(tool))} \ {"client"}

\* The parameter named n in the signature of tool.
ParamOf(tool, n) ==
    signature(tool)[CHOOSE i \in 1..Len(signature(tool)) :
                        signature(tool)[i].name = n]

----------------------------------------------------------------------------
\* The claims

\* C1: every envelope a tool function returns holds the key "error" if and
\* only if its "successful" field is False.
C1_ErrorIffNotSuccessful ==
    Returned =>
        (("error" \in DOMAIN last.env) <=> (last.env.successful = FALSE))

\* C1 witness: a tool returned the failure envelope of a failed request.
C1_Witness ==
    /\ Returned
    /\ last.tool = "download_outlook_attachment"
    /\ ~last.env.successful
    /\ last.env.error = HTTPError(500)

\* C2: a tool function entered with a client that is not authenticated
\* returns {successful: False, data: {}, error: "Not authenticated. Please
\* authenticate first."} and sends no Graph request.
C2_NotAuthenticatedEnvelope ==
    (Returned /\ last.entry_tok = NoToken) =>
        /\ last.env = Fail(NotAuthenticated)
        /\ AllSends = {}
        /\ ReqStarts = {}

\* C2 witness: update_email was entered with an unauthenticated client.
C2_Witness ==
    /\ Returned
    /\ last.entry_tok = NoToken
    /\ last.tool = "update_email"

\* C3 as stated: no invocation of a registered tool raises an exception to
\* the protocol server.
C3_NoFaultReachesServer == last.active => ~last.raised

\* C3 amended: an invocation raises to the protocol server only from
\* get_client (the client could not be constructed, or the first-use
\* interactive authentication raised), before the tool function runs and
\* before any Graph request; every failure inside the tool function is
\* returned as an envelope with successful=False and a message.
C3_FaultsOnlyFromGetClient ==
    last.active =>
        /\ last.raised =>
              /\ AllSends = {}
              /\ EventsOfType("construct") # {}
              /\ \/ last.exc.msg =
                      "OUTLOOK_CLIENT_ID environment variable is required"
                 \/ last.auth.ret = "raised"
        /\ (~last.raised /\ AllSends # {}
              /\ last.ev[Max(AllSends)].status >= 400) =>
              /\ last.env.successful = FALSE
              /\ last.env.error.msg # ""
        /\ (~last.raised /\ EventsOfType("write_file") # {}
              /\ ~last.ev[Max(EventsOfType("write_file"))].ok) =>
              /\ last.env.successful = FALSE
              /\ last.env.error.msg # ""

\* C3 witness: the interactive authentication raised inside get_client and
\* the invocation ended as a fault.
C3_Witness ==
    /\ last.active
    /\ last.raised
    /\ last.auth.ret = "raised"

\* C4: within one call of request there are at most two sends and at most
\* one silent refresh, and a second send happens only after a first response
\* of 401 and a successful silent refresh in between.
C4_RetryOnlyOnceAfter401 ==
    last.active =>
        \A r \in ReqStarts :
            /\ Cardinality(SendsOf(r)) <= 2
            /\ Cardinality(LoadsOf(r)) <= 1
            /\ Cardinality(SendsOf(r)) = 2 =>
                  /\ last.ev[Min(SendsOf(r))].status = 401
                  /\ \E k \in LoadsOf(r) :
                        /\ Min(SendsOf(r)) < k
                        /\ k < Max(SendsOf(r))
                        /\ last.ev[k].ok

\* C4 witness: the retry drew a 401 again and the call ended there.
C4_Witness ==
    /\ last.active
    /\ \E r \in ReqStarts :
          /\ Cardinality(SendsOf(r)) = 2
          /\ last.ev[Max(SendsOf(r))].status = 401
          /\ \E e \in EndsOf(r) : last.ev[e].err = HTTPError(401)

\* C5 as stated: request returns only when the final response has a 2xx
\* status, and for every other final status the error raised carries that
\* status.
C5_ReturnsOnly2xx ==
    last.active =>
        \A k \in EventsOfType("req_end") :
            /\ last.ev[k].ok =>
                  (last.ev[k].status >= 200 /\ last.ev[k].status < 300)
            /\ ~(last.ev[k].status >= 200 /\ last.ev[k].status < 300) =>
                  (~last.ev[k].ok /\ last.ev[k].err.status = last.ev[k].status)

\* C5 amended: request returns only when the final response has a status
\* below 400; for a final 4xx or 5xx status it raises, an HTTPError carrying
\* the status, except after a first 401 whose silent refresh failed, where it
\* raises "Authentication expired" without a status and without a retry.
C5_ReturnsOnlyBelow400 ==
    last.active =>
        \A r \in ReqStarts : \A k \in EndsOf(r) :
            /\ last.ev[k].ok => last.ev[k].status < 400
            /\ last.ev[k].status >= 400 =>
                  /\ ~last.ev[k].ok
                  /\ \/ last.ev[k].err = HTTPError(last.ev[k].status)
                     \/ /\ last.ev[k].status = 401
                        /\ last.ev[k].err = AuthenticationExpired
                        /\ Cardinality(SendsOf(r)) = 1

\* C5 witness: a call of request returned on a final 304.
C5_Witness ==
    /\ last.active
    /\ \E k \in EventsOfType("req_end") :
          last.ev[k].ok /\ last.ev[k].status = 304

\* C6 as stated: every tool invocation performs at most one Graph request.
C6_AtMostOneRequest == last.active => Cardinality(ReqStarts) <= 1

\* C6 amended: every tool invocation performs at most two Graph requests,
\* each one send plus at most one retry; only create_draft (the attachment
\* POST after the draft POST) and update_email (the isDraft GET before the
\* PATCH) perform a second, distinct request.
C6_SecondRequestOnlyDraftAndUpdate ==
    last.active =>
        /\ Cardinality(ReqStarts) <= 2
        /\ Cardinality(ReqStarts) = 2 =>
              last.tool \in {"create_draft", "update_email"}
        /\ \A r \in ReqStarts : Cardinality(SendsOf(r)) <= 2
        /\ \A k \in AllSends : \E r \in ReqStarts : InReq(r, k)

\* C6 witness: update_email sent its GET and its PATCH, each with a retry.
C6_Witness ==
    /\ Returned
    /\ last.tool = "update_email"
    /\ Cardinality(ReqStarts) = 2
    /\ Cardinality(AllSends) = 4

\* C7: the interactive device-code flow starts only after the silent
\* acquisition from the cache (_load_cached_token) has run and failed in the
\* same process, and never in a process whose constructor's silent
\* acquisition succeeded.
C7_InteractiveOnlyAfterSilentFailed ==
    /\ last.active =>
          \A i \in EventsOfType("initiate") :
              \E j \in EventsOfType("load") : j < i /\ ~last.ev[j].ok
    /\ n_interactive > 0 => ctor_silent = "failed"
    /\ ctor_silent = "ok" => n_interactive = 0

\* C7 witness: the cache held an account, the silent acquisition was tried
\* and failed, and the device-code flow was started.
C7_Witness ==
    /\ last.active
    /\ EventsOfType("initiate") # {}
    /\ \E j \in EventsOfType("silent") : ~last.ev[j].ok

\* C8: when authenticate_interactive returns True, the cache file holds the
\* serialization of the in-memory cache, that cache holds the new credential,
\* and a client built from the file finds an account and that token.
C8_TrueMeansCacheOnDisk ==
    (last.active /\ last.auth.called /\ last.auth.ret = "True") =>
        /\ last.auth.file.exists
        /\ last.auth.file.text = serialize(last.auth.cache)
        /\ last.auth.tok # NoToken
        /\ last.auth.cache.AccessToken = last.auth.tok
        /\ create_msal_app(last.auth.file).Account
        /\ create_msal_app(last.auth.file).AccessToken = last.auth.tok

\* C8 witness: authenticate_interactive returned True over an older cache file.
C8_Witness ==
    /\ last.active
    /\ last.auth.called
    /\ last.auth.ret = "True"
    /\ EventsOfType("silent") # {}

\* C9 as stated: after request has handled a 401, the access token that drew
\* the 401 is no longer the client's current credential.
C9_TokenOf401NotKept ==
    last.active =>
        \A r \in ReqStarts : \A k \in SendsOf(r) : \A e \in EndsOf(r) :
            last.ev[k].status = 401 => last.ev[e].tok # last.ev[k].tok

\* C10: when the device-code initiation yields a flow without a user code,
\* authenticate_interactive returns False after that one initiation, without
\* polling, and leaves the client without a token.
C10_NoUserCodeReturnsFalse ==
    (last.active /\ last.auth.called /\ last.auth.flow = "nocode") =>
        /\ last.auth.ret = "False"
        /\ Cardinality(EventsOfType("initiate")) = 1
        /\ EventsOfType("poll") = {}
        /\ EventsOfType("save") = {}
        /\ last.auth.tok = NoToken

\* C10 witness: the initiation gave no user code and the tool then ran with
\* the unauthenticated client.
C10_Witness ==
    /\ Returned
    /\ last.auth.called
    /\ last.auth.flow = "nocode"
    /\ last.auth.ret = "False"

\* C11: when the device-code polling ends without an access token,
\* authenticate_interactive returns False, access_token has the value it had
\* before the call, and the token cache file is as it was before the call.
C11_FailedPollChangesNothing ==
    (last.active /\ last.auth.called
        /\ \E k \in EventsOfType("poll") : ~last.ev[k].ok) =>
        /\ last.auth.ret = "False"
        /\ last.auth.tok = last.auth.tok0
        /\ last.auth.file = last.auth.file0
        /\ EventsOfType("save") = {}

\* C11 witness: the user code was shown, the polling ended without a token
\* and the tool then ran with the unauthenticated client.
C11_Witness ==
    /\ Returned
    /\ last.auth.called
    /\ last.auth.flow = "ok"
    /\ \E k \in EventsOfType("poll") : ~last.ev[k].ok
    /\ last.auth.ret = "False"

\* C12: at most one OutlookClient is successfully constructed in a process,
\* every tool function called receives that one instance, a client is in
\* state exactly when one was constructed, and before the first tool
\* invocation (tool registration included) no client is constructed and no
\* authentication is started.
C12_OneLazyClient ==
    /\ n_constructed <= 1
    /\ state_client <=> (n_constructed = 1)
    /\ Returned => last.client = 1
    /\ ~invoked =>
          /\ n_constructed = 0
          /\ n_interactive = 0
          /\ ~state_client
          /\ access_token = NoToken

\* C12 witness: the client was constructed by an invocation that ended in a
\* fault, and a later invocation runs its tool function with that client.
C12_Witness ==
    /\ Returned
    /\ EventsOfType("construct") = {}
    /\ last.client = 1
    /\ n_interactive = 1
    /\ access_token = NoToken

\* C14: every HTTP request of request goes to the base URL followed by the
\* endpoint and carries as bearer the client's access token at the time it is
\* sent (the token request began with for the first send, the token the
\* silent refresh set for the retry), which is never None.
C14_BearerIsCurrentToken ==
    last.active =>
        /\ \A k \in AllSends :
              /\ last.ev[k].url[1] = GRAPH_API_ENDPOINT
              /\ Len(last.ev[k].url) = 2
              /\ last.ev[k].headers.Authorization # NoToken
              /\ \E r \in ReqStarts : InReq(r, k)
        /\ \A r \in ReqStarts : \A k \in SendsOf(r) :
              /\ last.ev[k].url = last.ev[r].url
              /\ last.ev[k].headers.Authorization =
                    IF k = Min(SendsOf(r)) THEN last.ev[r].tok
                    ELSE last.ev[Max({j \in LoadsOf(r) : j < k})].tok

\* C14 witness: a retry was sent with a token minted by the silent refresh,
\* another token than the one of the first attempt.
C14_Witness ==
    /\ last.active
    /\ \E r \in ReqStarts :
          /\ Cardinality(SendsOf(r)) = 2
          /\ last.ev[Max(SendsOf(r))].headers.Authorization
                # last.ev[Min(SendsOf(r))].headers.Authorization

\* C13: the wrapper create_dynamic_wrapper builds declares the parameters of
\* the target but client, in order, with the same defaults; a call that
\* supplies the required arguments, once get_client has returned the shared
\* client, invokes the target exactly once with that client and with every
\* parameter equal to the value supplied, or to its default when omitted, and
\* returns the target's envelope unchanged.
C13_WrapperForwardsArguments ==
    last.active =>
        LET tool == last.tool
            w == create_dynamic_wrapper(signature(tool))
            params == SelectSeq(signature(tool), LAMBDA q : q.name # "client")
        IN  /\ Len(w.decl) = Len(params)
            /\ \A i \in 1..Len(params) :
                  /\ w.decl[i].name = params[i].name
                  /\ w.decl[i].has_default = params[i].has_default
                  /\ params[i].has_default =>
                        eval(w.decl[i].literal) = params[i].default
            /\ ({n \in ParamNames(tool) : ~ParamOf(tool, n).has_default}
                    \subseteq DOMAIN last.supplied) => ~last.raised
            /\ Returned =>
                  /\ Cardinality(EventsOfType("target")) = 1
                  /\ DOMAIN Kwargs = ParamNames(tool)
                  /\ \A n \in ParamNames(tool) :
                        Kwargs[n] = IF n \in DOMAIN last.supplied
                                    THEN last.supplied[n]
                                    ELSE ParamOf(tool, n).default
                  /\ last.client = n_constructed
                  /\ Cardinality(EventsOfType("return")) = 1
                  /\ last.env = last.ev[Max(EventsOfType("return"))].kw

\* C13 witness: create_contact was called with givenName and without notes,
\* and the target received notes=None.
C13_Witness ==
    /\ Returned
    /\ last.tool = "create_contact"
    /\ "givenName" \in DOMAIN last.supplied
    /\ "notes" \notin DOMAIN last.supplied
    /\ Kwargs.notes = None
    /\ last.env.successful

\* The optional parameters that have a key of their own in the request body
\* or the query parameters, with the path of that key.
OwnKeys(tool) ==
    CASE tool = "send_email" ->
           {<<"cc_emails", <<"message", "ccRecipients">> >>,
            <<"bcc_emails", <<"message", "bccRecipients">> >>,
            <<"attachment", <<"message", "attachments">> >>,
            <<"save_to_sent_items", <<"saveToSentItems">> >>}
      [] tool = "create_contact" ->
           {<<"givenName", <<"givenName">> >>, <<"surname", <<"surname">> >>,
            <<"displayName", <<"displayName">> >>,
            <<"emailAddresses", <<"emailAddresses">> >>,
            <<"businessPhones", <<"businessPhones">> >>,
            <<"mobilePhone", <<"mobilePhone">> >>,
            <<"homePhone", <<"homePhones">> >>,
            <<"companyName", <<"companyName">> >>,
            <<"department", <<"department">> >>,
            <<"jobTitle", <<"jobTitle">> >>,
            <<"officeLocation", <<"officeLocation">> >>,
            <<"birthday", <<"birthday">> >>,
            <<"categories", <<"categories">> >>,
            <<"notes", <<"personalNotes">> >>}
      [] tool = "update_calendar_event" ->
           {<<"subject", <<"subject">> >>, <<"body", <<"body">> >>,
            <<"start_datetime", <<"start", "dateTime">> >>,
            <<"end_datetime", <<"end", "dateTime">> >>,
            <<"time_zone", <<"start", "timeZone">> >>,
            <<"time_zone", <<"end", "timeZone">> >>,
            <<"location", <<"location">> >>,
            <<"attendees", <<"attendees">> >>,
            <<"categories", <<"categories">> >>,
            <<"show_as", <<"showAs">> >>}
      [] tool = "list_messages" ->
           {<<"orderby", <<"$orderby">> >>, <<"select", <<"$select">> >>,
            <<"skip", <<"$skip">> >>, <<"top", <<"$top">> >>}

\* The first half of C15: an optional parameter left unset contributes no key
\* to the request body or the query parameters.
UnsetKeysAbsent ==
    last.active =>
        \A k \in AllSends : \A pk \in OwnKeys(last.tool) :
            Kwargs[pk[1]] = None =>
                \A l \in Documents(k) : ~HasPrefix(pk[2], l.path)

\* C15 as stated: for every tool, an optional parameter left unset
\* contributes no key to the request body or the query parameters, and no key
\* of the body or the query carries a null value.
C15_NoUnsetKeyNoNull ==
    /\ UnsetKeysAbsent
    /\ last.active =>
          \A k \in AllSends : \A l \in Documents(k) : l.val # None

\* C16 as stated: an authenticated send_email call given only subject, body
\* and to_email, which the Graph API accepts, sends exactly one POST to
\* /me/sendMail and returns {successful: True, data: {message: ...}} without
\* reading the response body.
C16_SendEmailScenario ==
    (/\ Returned
     /\ last.tool = "send_email"
     /\ last.entry_tok # NoToken
     /\ DOMAIN last.supplied = {"subject", "body", "to_email"}
     /\ AllSends # {}
     /\ last.ev[Min(AllSends)].status \in 200..299) =>
        /\ Cardinality(AllSends) = 1
        /\ last.ev[Min(AllSends)].method = "POST"
        /\ last.ev[Min(AllSends)].url = <<GRAPH_API_ENDPOINT, "/me/sendMail">>
        /\ last.env = Ok(Data("message", EmptyObj))

\* The filter clauses C17 expects for the filter parameters given, in the
\* order of the parameters from_address, has_attachments, is_read, subject,
\* categories.
C17_Clauses(kw) ==
    (IF truthy_str(kw.from_address)
     THEN <<"from/emailAddress/address eq 'a@b.com'">> ELSE <<>>)
    \o (IF kw.has_attachments = Some(FALSE)
        THEN <<"hasAttachments eq false">> ELSE <<>>)
    \o (IF kw.is_read = Some(TRUE) THEN <<"isRead eq true">>
        ELSE IF kw.is_read = Some(FALSE) THEN <<"isRead eq false">>
        ELSE <<>>)
    \o (IF truthy_str(kw.subject) THEN <<"subject eq 'Hi'">> ELSE <<>>)
    \o (IF truthy_list(kw.categories)
        THEN <<"categories/any(c:c eq 'Red')",
               "categories/any(c:c eq 'Blue')">>
        ELSE <<>>)

\* C17: list_messages puts 'isRead eq true' or 'isRead eq false' into $filter
\* exactly when is_read is given (False included), joins all clauses with
\* ' and ', sends no $filter when no filter parameter is given, and asks
\* /{user}/mailFolders/{folder}/messages when a folder is named and
\* /{user}/messages otherwise.
C17_ListMessagesFilterAndPath ==
    (last.active /\ last.tool = "list_messages") =>
        \A k \in AllSends :
            LET clauses == C17_Clauses(Kwargs)
                filter == {l \in last.ev[k].kw.params : l.path = <<"$filter">>}
                user == IF Kwargs.user_id = None THEN "me"
                        ELSE Kwargs.user_id[1]
            IN  /\ filter = IF clauses = <<>> THEN {}
                            ELSE {Leaf(<<"$filter">>,
                                       Some(join(" and ", clauses)))}
                /\ (Kwargs.is_read # None) <=>
                      \E i \in 1..Len(clauses) :
                          clauses[i] \in {"isRead eq true", "isRead eq false"}
                /\ last.ev[k].url[2] =
                      IF truthy_str(Kwargs.folder)
                      THEN "/" \o user \o "/mailFolders/inbox/messages"
                      ELSE "/" \o user \o "/messages"

\* C17 witness: list_messages(folder="inbox", is_read=False) and a category
\* filter sent 'isRead eq false' joined to the other clauses.
C17_Witness ==
    /\ Returned
    /\ last.tool = "list_messages"
    /\ Kwargs.is_read = Some(FALSE)
    /\ Kwargs.folder = Some("inbox")
    /\ Kwargs.from_address = None
    /\ Kwargs.has_attachments = None
    /\ Kwargs.subject = None
    /\ Kwargs.categories # None
    /\ \E k \in AllSends :
          /\ last.ev[k].url[2] = "/me/mailFolders/inbox/messages"
          /\ Leaf(<<"$filter">>,
                  Some("isRead eq false and categories/any(c:c eq 'Red')"
                       \o " and categories/any(c:c eq 'Blue')"))
                \in last.ev[k].kw.params

\* C18: after a create tool (create_contact, create_event, create_mail_folder)
\* succeeded and returned the identifier X, an invocation of the matching get,
\* update or delete tool with X and the same user_id sends its request to the
\* creation's collection path followed by /X, and it succeeds while the
\* resource has not been deleted.
C18_CreatedIdAddressesResource ==
    [][\A c \in created :
         (/\ ~last.active
          /\ last'.active
          /\ last'.tool \in UseTools(c.tool)
          /\ Kwargs'[IdParam(c.tool)] = Some(c.id)
          /\ Kwargs'.user_id = c.user_id)
         => /\ AllSends' # {}
            /\ \A k \in AllSends' :
                  last'.ev[k].url[1] \o last'.ev[k].url[2]
                    = c.collection \o "/" \o c.id
            /\ (c.collection \o "/" \o c.id) \in graph
                  => Returned' /\ last'.env.successful]_vars

\* A contact created for another user was read and then deleted through the
\* identifier its creation returned.
C18_Witness ==
    /\ Returned
    /\ last.tool = "delete_contact"
    /\ last.env.successful
    /\ \E c \in created :
          /\ c.tool = "create_contact"
          /\ c.user_id = Some("users/u1")
          /\ Kwargs.contact_id = Some(c.id)
          /\ Kwargs.user_id = c.user_id
          /\ (c.collection \o "/" \o c.id) \notin graph
          /\ \A k \in AllSends :
                last.ev[k].url[2] = "/users/u1/contacts/" \o c.id

\* The request the invocation in last constructed.
LastRequest == constructed_request(last)

RECURSIVE HasNullMarker(_)
HasNullMarker(v) ==
    IF is_dict(v)
    THEN \E i \in 1..Len(v.dict) :
           \E key \in {v.dict[i][1]}, value \in {v.dict[i][2]} :
             \/ key = "type" /\ value = JStr("null")
             \/ /\ key = "type"
                /\ is_list(value)
                /\ \E j \in 1..Len(value.list) : value.list[j] = JStr("null")
             \/ key = "default" /\ value = JNone
             \/ /\ key = "anyOf"
                /\ is_list(value)
                /\ \E j \in 1..Len(value.list) :
                      /\ is_dict(value.list[j])
                      /\ items_get(value.list[j].dict, "type") = JStr("null")
             \/ HasNullMarker(value)
    ELSE IF is_list(v)
    THEN \E i \in 1..Len(v.list) : HasNullMarker(v.list[i])
    ELSE FALSE

\* C20: the schema remove_null_from_schema returns, which becomes the
\* parameters of the registered tool, contains no nullable-type marker at any
\* nesting depth: no anyOf member of type "null", no "null" entry in a type
\* list, no type equal to "null" and no default equal to None.
C20_NoNullMarkerAtAnyDepth ==
    tool_parameters # JNone => ~HasNullMarker(tool_parameters)

\* The part of C20 that holds: a schema without anyOf at any depth comes back
\* without any marker.
RECURSIVE HasAnyOf(_)
HasAnyOf(v) ==
    IF is_dict(v)
    THEN \E i \in 1..Len(v.dict) :
           v.dict[i][1] = "anyOf" \/ HasAnyOf(v.dict[i][2])
    ELSE IF is_list(v)
    THEN \E i \in 1..Len(v.list) : HasAnyOf(v.list[i])
    ELSE FALSE

C20_NoMarkerWithoutAnyOf ==
    (tool_parameters # JNone /\ ~HasAnyOf(input_schema))
    => ~HasNullMarker(tool_parameters)

\* The invocation in last tried to construct the client and the constructor
\* raised for the missing application identifier, nothing else having run.
ConstructorRejected ==
    /\ last.raised
    /\ last.exc = Err("OUTLOOK_CLIENT_ID environment variable is required", 0)
    /\ Len(last.ev) = 1
    /\ last.ev[1].type = "construct"
    /\ ~last.ev[1].ok
    /\ ~last.auth.called

\* C21: without OUTLOOK_CLIENT_ID the constructor raises the configuration
\* ValueError before the token cache is read or any authentication starts, and
\* get_client keeps no client, so that a later invocation attempts the
\* construction again.
C21_NoClientIdNothingCached ==
    /\ [](~env_client_id =>
            /\ ~state_client
            /\ n_constructed = 0
            /\ n_interactive = 0
            /\ token_cache = EmptyCache
            /\ access_token = NoToken
            /\ last.active => ConstructorRejected)
    /\ [][(~env_client_id /\ invoked /\ ~last.active /\ last'.active)
            => ConstructorRejected']_vars

\* A tool was invoked without OUTLOOK_CLIENT_ID while a cache file with an
\* account lies on disk: the construction was attempted, the file was not
\* read and no client is kept.
C21_Witness ==
    /\ ~env_client_id
    /\ last.active
    /\ ConstructorRejected
    /\ token_cache_file.exists
    /\ deserialize(token_cache_file.text).Account
    /\ token_cache = EmptyCache
    /\ ~state_client

\* The invocation in last sent a request with this method.
Sent(method) == \E k \in AllSends : last.ev[k].method = method

\* The invocation in last is an update that names the resource and no field
\* to change.
NoFieldSupplied ==
    \/ /\ last.tool = "update_email"
       /\ "body" \in DOMAIN last.supplied
       /\ last.supplied.body = "none"
       /\ ~last.supplied.other
    \/ /\ last.tool = "update_contact"
       /\ DOMAIN last.supplied \subseteq {"contact_id", "user_id"}

\* C22: update_email and update_contact, called with no field to modify
\* besides the resource identifier, return a failure envelope and send no
\* PATCH request.
C22_UpdateNeedsAField ==
    (last.active /\ NoFieldSupplied)
    => /\ Returned
       /\ ~last.env.successful
       /\ ~Sent("PATCH")

\* The part of C22 that holds: update_email rejects a call without fields.
C22_UpdateEmailNeedsAField ==
    (last.active /\ NoFieldSupplied /\ last.tool = "update_email")
    => /\ Returned
       /\ ~last.env.successful
       /\ ~Sent("PATCH")

\* a is chronologically before b, for two of DateTimes.
Before(a, b) ==
    \E i, j \in 1..Len(DateTimes) :
       DateTimes[i] = a /\ DateTimes[j] = b /\ i < j

\* C23: create_event sends the event-creation POST only when start_datetime
\* is strictly before end_datetime, and otherwise returns a failure envelope.
C23_CreateEventStartBeforeEnd ==
    (last.active /\ last.tool = "create_event")
    => /\ Sent("POST")
          => Before(Kwargs.start_datetime[1], Kwargs.end_datetime[1])
       /\ ~Before(Kwargs.start_datetime[1], Kwargs.end_datetime[1])
          => Returned /\ ~last.env.successful

\* The pre-check of update_email in last: its first call of request returned,
\* and the object returned did not report isDraft true.
PreCheckSaysNoDraft ==
    /\ last.tool = "update_email"
    /\ ReqStarts # {}
    /\ \E e \in EndsOf(Min(ReqStarts)) :
          /\ last.ev[e].method = "GET"
          /\ last.ev[e].ok
          /\ last.ev[e].ret.isDraft # "true"

\* C24: when the pre-check GET of update_email succeeded and did not report
\* isDraft true, no PATCH is sent and the call returns the 'Only draft
\* messages can be updated' failure envelope.
C24_NoPatchForNonDraft ==
    (last.active /\ PreCheckSaysNoDraft)
    => /\ Returned
       /\ last.env = Fail(OnlyDraftsCanBeUpdated)
       /\ ~Sent("PATCH")

\* update_email was called with a valid body for a message whose pre-check
\* returned an object without isDraft, after a retry of the pre-check.
C24_Witness ==
    /\ last.active
    /\ PreCheckSaysNoDraft
    /\ last.supplied.body = "valid"
    /\ \E e \in EndsOf(Min(ReqStarts)) : last.ev[e].ret.isDraft = "absent"
    /\ Cardinality(SendsOf(Min(ReqStarts))) = 2
    /\ last.env = Fail(OnlyDraftsCanBeUpdated)

\* C25: the contentBytes add_event_attachment sends is the Base64 of the file
\* when file_path is given, else the Base64 of text_content when that is
\* given, else the contentBytes supplied, and the key is absent when none of
\* the three is given.
C25_AttachmentContentPriority ==
    (last.active /\ last.tool = "add_event_attachment")
    => \A k \in AllSends :
         last.ev[k].kw =
           CASE last.supplied.file_path    -> "b64(file)"
             [] last.supplied.text_content -> "b64(text_content)"
             [] last.supplied.contentBytes -> "contentBytes"
             [] OTHER                      -> ""

\* An attachment was posted for a call that gave text_content and contentBytes
\* and no file_path: the Base64 of the text was sent.
C25_Witness ==
    /\ Returned
    /\ last.tool = "add_event_attachment"
    /\ ~last.supplied.file_path
    /\ last.supplied.text_content
    /\ last.supplied.contentBytes
    /\ AllSends # {}
    /\ \A k \in AllSends : last.ev[k].kw = "b64(text_content)"
    /\ last.env.successful

\* C26: when request retries after a 401, the retried HTTP request has the
\* method, URL, query parameters, body and caller-supplied custom headers
\* (the Prefer header of delete_event and list_events) of the first attempt,
\* and differs from it only in the bearer token.
C26_RetryRepeatsRequest ==
    last.active =>
      \A r \in ReqStarts : \A a \in SendsOf(r), b \in SendsOf(r) :
        a < b =>
          /\ last.ev[b].method = last.ev[a].method
          /\ last.ev[b].url = last.ev[a].url
          /\ last.ev[b].kw = last.ev[a].kw
          /\ last.ev[b].headers.Prefer = last.ev[a].headers.Prefer
          /\ last.ev[b].headers.ContentType = last.ev[a].headers.ContentType

\* The part of C26 that holds: the retry repeats the method, the URL, the
\* query parameters and the body.
C26_RetryKeepsMethodUrlBody ==
    last.active =>
      \A r \in ReqStarts : \A a \in SendsOf(r), b \in SendsOf(r) :
        a < b =>
          /\ last.ev[b].method = last.ev[a].method
          /\ last.ev[b].url = last.ev[a].url
          /\ last.ev[b].kw = last.ev[a].kw
          /\ last.ev[b].headers.ContentType = last.ev[a].headers.ContentType

\* C27: an invocation that changes the in-memory token cache and returns,
\* a silent refresh at construction or after a 401 included, leaves the cache
\* file equal to the serialized in-memory cache.
C27_CacheFileFollowsMemory ==
    [][(/\ last'.active
        /\ ~last'.raised
        /\ token_cache' # token_cache)
       => /\ token_cache_file'.exists
          /\ token_cache_file'.text = serialize(token_cache')]_vars

\* The part of C27 that holds: an invocation in which authenticate_interactive
\* returned True leaves the file equal to the serialized cache.
C27_InteractiveSavesCache ==
    (Returned /\ last.auth.called /\ last.auth.ret = "True")
    => /\ last.auth.file.exists
       /\ last.auth.file.text = serialize(last.auth.cache)

\* The first-use interactive authentication of get_client ran in the
\* invocation in last, and returned False or raised.
FirstUseAuthFailed ==
    /\ last.active
    /\ last.auth.called
    /\ last.auth.ret \in {"False", "raised"}

\* The client in state is the one whose first-use authentication was tried
\* once, and it holds no access token.
UnauthenticatedClientCached ==
    /\ state_client
    /\ n_interactive = 1
    /\ access_token = NoToken

\* From such a state every step keeps it, and an invocation returns the
\* not-authenticated envelope without authenticating or sending anything.
StaysUnauthenticated ==
    UnauthenticatedClientCached
    => /\ UnauthenticatedClientCached'
       /\ (~last.active /\ last'.active)
            => /\ ~last'.raised
               /\ last'.env = Fail(NotAuthenticated)
               /\ ~last'.auth.called
               /\ \A j \in 1..Len(last'.ev) : last'.ev[j].type # "send"

\* C28: once the first-use interactive authentication in get_client has
\* failed (returned False or raised), the unauthenticated client stays
\* cached, no later invocation starts another authentication, and every later
\* invocation returns the not-authenticated failure envelope, for the rest of
\* the process.
C28_FailedAuthIsFinal ==
    /\ [](FirstUseAuthFailed => UnauthenticatedClientCached)
    /\ [][StaysUnauthenticated]_vars

\* The part of C28 that holds: it is so when the failed authentication left
\* the client without an access token.
C28_FailedAuthWithoutTokenIsFinal ==
    /\ []((FirstUseAuthFailed /\ last.auth.tok = NoToken)
          => UnauthenticatedClientCached)
    /\ [][StaysUnauthenticated]_vars

\* The Graph API accepted the draft-creation POST of the create_draft
\* invocation in last: the draft exists on the server.
DraftCreated ==
    /\ last.tool = "create_draft"
    /\ \E k \in AllSends :
          /\ last.ev[k].method = "POST"
          /\ last.ev[k].url[2] = "/me/messages"
          /\ last.ev[k].status \in 200..299

\* C29: create_draft returns successful=False only when no draft was created
\* on the server; a call whose draft-creation POST succeeded is reported as
\* successful with the draft's data.
C29_FailureMeansNoDraft ==
    (last.active /\ DraftCreated)
    => /\ Returned
       /\ last.env.successful
       /\ last.env.data.kind = "result"

\* The part of C29 that holds: it is so when request returned the draft and
\* no attachment was posted.
C29_DraftWithoutAttachmentReported ==
    (/\ last.active
     /\ DraftCreated
     /\ Cardinality(ReqStarts) = 1
     /\ \A e \in EndsOf(Min(ReqStarts)) : last.ev[e].ok)
    => /\ Returned
       /\ last.env.successful
       /\ last.env.data.kind = "result"

----------------------------------------------------------------------------
\* The entries of a manifest that name an importable target under an id and
\* whose wrapping and registration succeed, by position and in order; none
\* for a manifest that is missing or that json.load rejects.
IsGoodEntry(e) ==
    e.is_dict /\ e.id /\ e.target = "importable" /\ e.wraps /\ e.adds

GoodIds(m) ==
    IF m.exists /\ m.parses /\ m.is_dict /\ m.has_tools = "list"
    THEN SelectSeq([i \in 1..Len(m.tools) |-> i],
                   LAMBDA i : IsGoodEntry(m.tools[i]))
    ELSE <<>>

\* The "tools" member of the manifest is a list of JSON objects.
ListOfObjects(m) ==
    /\ m.exists /\ m.parses /\ m.is_dict /\ m.has_tools = "list"
    /\ \A i \in 1..Len(m.tools) : m.tools[i].is_dict

\* C30: register_tools never raises and isolates bad manifest entries: main
\* never ends with an exception of register_tools, and the server it starts
\* has exactly the manifest's good entries registered, in order: an entry
\* without id or target, with an unimportable target, or whose wrapping or
\* registration fails is skipped, and a missing or unparsable manifest
\* registers zero tools.
C30_RegisterToolsNeverRaises ==
    /\ ~crashed
    /\ serving => mcp_tools = GoodIds(manifest)

\* C30, the part that holds: on a missing manifest, on one that json.load
\* rejects, and on one whose "tools" member is a list of objects, main starts
\* the server with exactly the good entries registered.
C30_ObjectEntriesAreIsolated ==
    (\/ ~manifest.exists
     \/ ~manifest.parses
     \/ ListOfObjects(manifest))
    => C30_RegisterToolsNeverRaises

\* A server started on a manifest with a good entry after a bad one: the bad
\* entry was skipped and the good one registered.
C30_BadEntrySkipped ==
    /\ serving
    /\ Len(manifest.tools) >= 2
    /\ ~IsGoodEntry(manifest.tools[1])
    /\ mcp_tools = <<2>>

====
